---- MODULE Spec2Model ----
(***************************************************************************)
(* A model of the opportunity pipeline of 404botv2: the event bus          *)
(* (src/core/event_bus.py), the gas price oracle (src/utils/gas_price.py   *)
(* and its older copy src/temp_extract/utils/gas_price.py), the mempool    *)
(* monitor (src/mev/mempool.py), the profitability gates, order sizing     *)
(* (src/temp_extract/utils/profitability.py), bundle submission            *)
(* (src/mev/flashbots.py) and the adaptive parameters                      *)
(* (src/temp_extract/utils/adaptive_parameters.py).  Every component has   *)
(* its own specification (SpecBus, SpecGas, SpecTiers, SpecMempool,        *)
(* SpecFailingFeed, SpecPipeline, SpecShutdown, SpecClassify, SpecGate,    *)
(* SpecSizing, SpecBundle, SpecAdaptive); the variables of the other       *)
(* components stay parked at their initial values.  The later sections     *)
(* model the lifecycle of the monitor's tasks (SpecLife), the transaction  *)
(* cost estimate (SpecCost), the strategy selection loop of src/core/bot.py*)
(* (SpecSelection), callbacks that change the subscriptions during a       *)
(* publication (SpecReentrant), and the flash loan strategy of             *)
(* src/strategies/advanced_flash_loan.py (SpecFlashLoan, SpecExecutor).    *)
(***************************************************************************)

EXTENDS Integers, Sequences, FiniteSets, TLC

VARIABLES
    \* ---- EventBus (src/core/event_bus.py)
    subscribers,      \* self.subscribers: topic -> list of callbacks
    dispatch,         \* the publish / publish_async call in progress or just returned
    subCount,         \* history: subscribe calls per (topic, handler) since its last unsubscribe (capped at 2)
    regOrder,         \* history: per topic, the registered handlers in the order of their first subscribe since their last unsubscribe
    busClock,         \* history: number of subscribe/unsubscribe/clear_subscribers calls so far
    \* ---- gas price oracle (utils/gas_price.py, temp_extract/utils/gas_price.py)
    impl,             \* which of the two copies is the process's utils.gas_price module
    last_gas_price,   \* module global: the cached price, None at import
    last_gas_update,  \* module global: time.time() of the last cache write
    last_gas_tier,    \* history: the strategy the cached price was computed for
    now,              \* the wall clock, in seconds
    gout,             \* the last call of get_optimal_gas_price and what it returned
    tiers,            \* SpecTiers: one window of samples and the three fresh estimates for it
    \* ---- MempoolMonitor (src/mev/mempool.py)
    running,          \* self.running
    ws,               \* self.ws: "none", "open" or "closed"
    mpc,              \* where the task of _connect_and_subscribe is suspended
    retry_count,      \* local of _connect_and_subscribe
    retry_delay,      \* local of _connect_and_subscribe, seconds
    wait,             \* the asyncio.sleep in progress: its seconds and the except branch it is in
    streak,           \* history of the connect loop since the task started
    pending_txs,      \* self.pending_txs: the keys of the dict, in insertion order
    processed_txs,    \* self.processed_txs
    tx_count,         \* self.tx_count
    ppc,              \* where the task of _process_pending_transactions is suspended
    tx_hashes,        \* local of _process_pending_transactions: the batch in progress
    fetch,            \* per hash of the batch: its _process_transaction is "pending" or "done"
    published,        \* the topics the monitor has published on the event bus
    hist,             \* history, per hash: deliveries, fetches, publications, ...
    procOrder,        \* history: the hashes of processed_txs in the order they were added
    \* ---- pure decisions, one evaluation per behaviour
    cls,              \* SpecClassify: one transaction, one registry, and the decision
    gate,             \* SpecGate: one opportunity and the decisions of the two gates
    sizing,           \* SpecSizing: two spreads, one market, and the sizes of the two functions
    \* ---- FlashbotsManager (src/mev/flashbots.py)
    sub,              \* the submit_bundle call in progress or just returned
    bundles_submitted, \* self.bundles_submitted
    bundle_events,    \* the bundle_submitted events published so far, oldest first
    \* ---- AdaptiveParameters (src/temp_extract/utils/adaptive_parameters.py)
    min_profit_threshold, \* self.min_profit_threshold, in units of base / AdaptScale
    slippage_tolerance,   \* self.slippage_tolerance, in units of percent / AdaptScale
    execution_history,    \* self.execution_history: strategy -> list of records
    exchange_performance, \* self.exchange_performance: exchange -> counters
    last_update_time,     \* self.last_update_time, seconds
    atime,                \* time.time() as AdaptiveParameters reads it, seconds since construction
    acall,                \* the last call of AdaptiveParameters and what it returned
    arrivals,             \* history: per strategy, every record ever appended, oldest first
    recomputes,           \* history: the times at which _update_parameters ran
    life,             \* MempoolMonitor task lifecycle: self.running, self.tasks and the start() calls so far
    cost,             \* one call of is_transaction_profitable: its inputs and what it returned
    sel,              \* Bot404: self.active_strategy, the strategy_changed events published and the last round of the selection loop
    fl,               \* one call of AdvancedFlashLoanStrategy._execute_flash_loan: the outcomes of its steps and what it did
    opps              \* AdvancedFlashLoanStrategy: pending_opportunities, executed_flash_loans and the round of _execute_opportunities in progress

busVars == <<subscribers, dispatch, subCount, regOrder, busClock>>
gasVars == <<impl, last_gas_price, last_gas_update, last_gas_tier, now, gout>>
memVars == <<running, ws, mpc, retry_count, retry_delay, wait, streak>>
pipeVars == <<pending_txs, processed_txs, tx_count, ppc, tx_hashes, fetch, published,
              hist, procOrder>>
bundleVars == <<sub, bundles_submitted, bundle_events>>
adaptVars == <<min_profit_threshold, slippage_tolerance, execution_history,
               exchange_performance, last_update_time, atime, acall, arrivals, recomputes>>
lateVars == <<life, cost, sel, fl, opps>>
extVars == <<sizing, bundleVars, adaptVars, lateVars>>
auxVars == <<cls, gate, extVars>>
vars == <<subscribers, dispatch, subCount, regOrder, busClock,
          impl, last_gas_price, last_gas_update, last_gas_tier, now, gout, tiers,
          running, ws, mpc, retry_count, retry_delay, wait, streak,
          pending_txs, processed_txs, tx_count, ppc, tx_hashes, fetch, published,
          hist, procOrder, cls, gate, sizing,
          sub, bundles_submitted, bundle_events,
          min_profit_threshold, slippage_tolerance, execution_history,
          exchange_performance, last_update_time, atime, acall, arrivals, recomputes,
          life,
          cost,
          sel,
          fl,
          opps>>

----------------------------------------------------------------------------
\* Generic helpers

Range(s) == {s[i] : i \in 1..Len(s)}

Count(s, x) == Cardinality({i \in 1..Len(s) : s[i] = x})

IndexOf(s, x) == CHOOSE i \in 1..Len(s) : s[i] = x /\ \A j \in 1..(i - 1) : s[j] # x

\* list.remove(x): drops the first occurrence of x
RemoveFirst(s, x) ==
    LET i == IndexOf(s, x)
    IN  [k \in 1..(Len(s) - 1) |-> IF k < i THEN s[k] ELSE s[k + 1]]

----------------------------------------------------------------------------
\* EventBus

Topics == {"t1", "t2"}
SyncHandlers == {"h1", "h2"}
AsyncHandlers == {"a1", "a2"}
Handlers == SyncHandlers \cup AsyncHandlers

\* bound on the number of subscribe/unsubscribe/clear_subscribers calls of a run
MaxBusOps == 4

\* asyncio.iscoroutinefunction(callback)
iscoroutinefunction(h) == h \in AsyncHandlers

NoDispatch ==
    [kind |-> "none", topic |-> "t1", status |-> "idle", idx |-> 0,
     calls |-> <<>>, raisedBy |-> {}, snapshot |-> <<>>,
     tasks |-> [h \in AsyncHandlers |-> "none"], propagated |-> FALSE,
     removed |-> {}]

\* No call of publish or publish_async is in progress.
BusIdle == dispatch.status \in {"idle", "returned"}

\* Another coroutine can run: nothing is in progress, or publish_async is
\* suspended in its await of gather (the synchronous publish never yields).
BusYielded == dispatch.status \in {"idle", "returned", "awaiting"}

\* subscribe/unsubscribe made while publish_async is suspended leave its call alone
AfterMutation == IF dispatch.status = "awaiting" THEN dispatch ELSE NoDispatch

BusInit ==
    /\ subscribers = [t \in Topics |-> <<>>]
    /\ dispatch = NoDispatch
    /\ subCount = [t \in Topics |-> [h \in Handlers |-> 0]]
    /\ regOrder = [t \in Topics |-> <<>>]
    /\ busClock = 0

SubscribeAppendAlways(list, callback) == Append(list, callback)

SubscribePrepend(list, callback) ==
    IF callback \in Range(list) THEN list ELSE <<callback>> \o list

\* subscribe, lines 32-33: append unless the callback is already in the list
SubscribeList(list, callback) ==
    IF callback \in Range(list) THEN list ELSE Append(list, callback)

\* unsubscribe, lines 44-45
UnsubscribeList(list, callback) ==
    IF callback \in Range(list) THEN RemoveFirst(list, callback) ELSE list

Subscribe(t, h) ==
    /\ BusYielded
    /\ busClock < MaxBusOps
    /\ subscribers' = [subscribers EXCEPT ![t] = SubscribeList(@, h)]
    /\ busClock' = busClock + 1
    /\ subCount' = [subCount EXCEPT ![t][h] = IF @ < 2 THEN @ + 1 ELSE @]
    /\ regOrder' = [regOrder EXCEPT ![t] = IF \E i \in 1..Len(@) : @[i] = h THEN @ ELSE @ \o <<h>>]
    /\ dispatch' = AfterMutation
    /\ UNCHANGED <<gasVars, tiers, memVars, pipeVars, auxVars>>

Unsubscribe(t, h) ==
    /\ BusYielded
    /\ busClock < MaxBusOps
    /\ subscribers' = [subscribers EXCEPT ![t] = UnsubscribeList(@, h)]
    /\ busClock' = busClock + 1
    /\ subCount' = [subCount EXCEPT ![t][h] = 0]
    /\ regOrder' = [regOrder EXCEPT ![t] = SelectSeq(@, LAMBDA x : x # h)]
    /\ dispatch' = AfterMutation
    /\ UNCHANGED <<gasVars, tiers, memVars, pipeVars, auxVars>>

\* clear_subscribers, lines 96-102: one topic's list is emptied, or with no
\* event_type the whole table is replaced by an empty one (publish treats a
\* missing topic and an empty list alike)
ClearedTopics(event_type) == IF event_type = "None" THEN Topics ELSE {event_type}

ClearSubscribers(event_type) ==
    /\ BusYielded
    /\ busClock < MaxBusOps
    /\ subscribers' = [t \in Topics |->
                          IF t \in ClearedTopics(event_type) THEN <<>> ELSE subscribers[t]]
    /\ busClock' = busClock + 1
    /\ subCount' = [t \in Topics |->
                       IF t \in ClearedTopics(event_type)
                           THEN [h \in Handlers |-> 0] ELSE subCount[t]]
    /\ regOrder' = [t \in Topics |->
                       IF t \in ClearedTopics(event_type) THEN <<>> ELSE regOrder[t]]
    /\ dispatch' = AfterMutation
    /\ UNCHANGED <<gasVars, tiers, memVars, pipeVars, auxVars>>

\* What a call callback(data) made by the synchronous publish can do: a
\* coroutine function only builds a coroutine object, so it cannot raise.
SyncOutcomes(h) == IF iscoroutinefunction(h) THEN {"ok"} ELSE {"ok", "raise"}

\* publish, lines 56-59: the call; an unknown topic returns at once
PublishCall(t) ==
    /\ BusIdle
    /\ dispatch' = [NoDispatch EXCEPT !.kind = "sync", !.topic = t, !.idx = 1,
                                      !.snapshot = subscribers[t],
                                      !.status = "dispatching"]
    /\ UNCHANGED <<subscribers, subCount, regOrder, busClock, gasVars, tiers, memVars, pipeVars, auxVars>>

PropagateFirstRaise(d, h, outcome) ==
    IF outcome = "raise"
        THEN [d EXCEPT !.calls = Append(@, h), !.raisedBy = @ \cup {h},
                       !.propagated = TRUE, !.status = "returned"]
        ELSE [d EXCEPT !.calls = Append(@, h), !.idx = @ + 1]

\* publish, lines 59-63: one iteration of the loop; the exception of the
\* callback is caught and logged
InvokeCallback(d, h, outcome) ==
    [d EXCEPT !.calls = Append(@, h),
              !.raisedBy = IF outcome = "raise" THEN @ \cup {h} ELSE @,
              !.idx = @ + 1]

PublishStep ==
    /\ dispatch.kind = "sync" /\ dispatch.status = "dispatching"
    /\ dispatch.idx <= Len(subscribers[dispatch.topic])
    /\ LET h == subscribers[dispatch.topic][dispatch.idx]
       IN  \E outcome \in SyncOutcomes(h) :
               dispatch' = InvokeCallback(dispatch, h, outcome)
    /\ UNCHANGED <<subscribers, subCount, regOrder, busClock, gasVars, tiers, memVars, pipeVars, auxVars>>

\* publish: the for loop is exhausted and the call returns
PublishReturn ==
    /\ dispatch.kind = "sync" /\ dispatch.status = "dispatching"
    /\ dispatch.idx > Len(subscribers[dispatch.topic])
    /\ dispatch' = [dispatch EXCEPT !.status = "returned"]
    /\ UNCHANGED <<subscribers, subCount, regOrder, busClock, gasVars, tiers, memVars, pipeVars, auxVars>>

\* publish_async, lines 76-84: the loop has no suspension point, so it is one
\* step.  A coroutine function gets a task (created, not yet run); any other
\* callback is called at once and its exception is caught and logged.
AsyncLoop(t, outs) ==
    LET list == subscribers[t]
    IN  [NoDispatch EXCEPT
            !.kind = "async", !.topic = t, !.snapshot = list, !.calls = list,
            !.idx = Len(list) + 1,
            !.raisedBy = {h \in Range(list) \cap SyncHandlers : outs[h] = "raise"},
            !.tasks = [h \in AsyncHandlers |->
                          IF h \in Range(list) THEN "scheduled" ELSE "none"]]

GatherFirstException(tasks) ==
    \/ \E h \in AsyncHandlers : tasks[h] = "exc"
    \/ \A h \in AsyncHandlers : tasks[h] \in {"none", "ok", "exc"}

\* asyncio.gather(*tasks, return_exceptions=True), line 87: resolves when
\* every task is done, whatever its outcome
GatherDone(tasks) == \A h \in AsyncHandlers : tasks[h] \in {"none", "ok", "exc"}

\* with return_exceptions=True gather hands exceptions back as results
GatherRaises(tasks) == FALSE

PublishAsyncCall(t) ==
    /\ BusIdle
    /\ \E outs \in [SyncHandlers -> {"ok", "raise"}] :
           LET d == AsyncLoop(t, outs)
           IN  dispatch' =
                   IF \A h \in AsyncHandlers : d.tasks[h] = "none"
                       THEN [d EXCEPT !.status = "returned"]   \* lines 73-74 and 86
                       ELSE [d EXCEPT !.status = "awaiting"]
    /\ UNCHANGED <<subscribers, subCount, regOrder, busClock, gasVars, tiers, memVars, pipeVars, auxVars>>

\* the event loop starts a task created by publish_async
TaskStart(h) ==
    /\ dispatch.status = "awaiting" /\ dispatch.tasks[h] = "scheduled"
    /\ dispatch' = [dispatch EXCEPT !.tasks[h] = "running"]
    /\ UNCHANGED <<subscribers, subCount, regOrder, busClock, gasVars, tiers, memVars, pipeVars, auxVars>>

\* a running task finishes, normally or with an exception
TaskFinish(h) ==
    /\ dispatch.status = "awaiting" /\ dispatch.tasks[h] = "running"
    /\ \E outcome \in {"ok", "exc"} :
           dispatch' = [dispatch EXCEPT !.tasks[h] = outcome]
    /\ UNCHANGED <<subscribers, subCount, regOrder, busClock, gasVars, tiers, memVars, pipeVars, auxVars>>

\* publish_async, line 87: the await of gather resumes
PublishAsyncReturn ==
    /\ dispatch.status = "awaiting"
    /\ GatherDone(dispatch.tasks)
    /\ dispatch' = [dispatch EXCEPT !.status = "returned",
                                    !.propagated = GatherRaises(dispatch.tasks)]
    /\ UNCHANGED <<subscribers, subCount, regOrder, busClock, gasVars, tiers, memVars, pipeVars, auxVars>>

\* What a callback can do to the topic being dispatched while the synchronous
\* publish is calling it
ReentrantOps == {"subscribe", "unsubscribe"}

\* publish, lines 59-63, where the callback called calls subscribe or
\* unsubscribe (lines 21-46) for the topic being dispatched before it returns
\* or raises: the for loop goes on over the list as the callback left it.  A
\* coroutine function called by publish does not run its body.
PublishStepReentrant(op, g) ==
    /\ dispatch.kind = "sync" /\ dispatch.status = "dispatching"
    /\ dispatch.idx <= Len(subscribers[dispatch.topic])
    /\ busClock < MaxBusOps
    /\ LET t == dispatch.topic
           h == subscribers[t][dispatch.idx]
       IN  /\ ~iscoroutinefunction(h)
           /\ \E outcome \in SyncOutcomes(h) :
                  dispatch' =
                      [InvokeCallback(dispatch, h, outcome) EXCEPT
                          !.removed = IF op = "unsubscribe" /\ g \in Range(subscribers[t])
                                          THEN @ \cup {g} ELSE @]
           /\ subscribers' = [subscribers EXCEPT
                                 ![t] = IF op = "subscribe" THEN SubscribeList(@, g)
                                        ELSE UnsubscribeList(@, g)]
           /\ subCount' = [subCount EXCEPT
                              ![t][g] = IF op = "unsubscribe" THEN 0
                                        ELSE IF @ < 2 THEN @ + 1 ELSE @]
           /\ regOrder' = [regOrder EXCEPT
                              ![t] = IF op = "unsubscribe" THEN SelectSeq(@, LAMBDA x : x # g)
                                     ELSE IF \E i \in 1..Len(@) : @[i] = g THEN @
                                     ELSE @ \o <<g>>]
    /\ busClock' = busClock + 1
    /\ UNCHANGED <<gasVars, tiers, memVars, pipeVars, auxVars>>

\* the synchronous publish with callbacks that change the subscriptions
NextReentrant ==
    \/ \E t \in Topics, h \in Handlers : Subscribe(t, h)
    \/ \E t \in Topics, h \in Handlers : Unsubscribe(t, h)
    \/ \E t \in Topics : PublishCall(t)
    \/ PublishStep
    \/ \E op \in ReentrantOps, g \in Handlers : PublishStepReentrant(op, g)
    \/ PublishReturn

NextBus ==
    \/ \E t \in Topics, h \in Handlers : Subscribe(t, h)
    \/ \E t \in Topics, h \in Handlers : Unsubscribe(t, h)
    \/ \E event_type \in Topics \cup {"None"} : ClearSubscribers(event_type)
    \/ \E t \in Topics : PublishCall(t)
    \/ PublishStep
    \/ PublishReturn
    \/ \E t \in Topics : PublishAsyncCall(t)
    \/ \E h \in AsyncHandlers : TaskStart(h)
    \/ \E h \in AsyncHandlers : TaskFinish(h)
    \/ PublishAsyncReturn

----------------------------------------------------------------------------
\* Gas price oracle: get_optimal_gas_price.  Prices are in units of 10^7 wei
\* (1 Gwei = 100), so that 20 Gwei fits the model checker's integers.

Impls == {"temp_extract", "utils"}
Strategies == {"fast", "balanced", "economic"}

None == -1

GAS_PRICE_CACHE_TTL == 30
\* min_gas_price = 1 * 10**9 (1 Gwei)
MinGasPrice == 100
\* standard_gas_price = 20 * 10**9 (20 Gwei)
StandardGasPrice == 2000
\* len(gas_prices) >= 10
MinSamples == 10

\* bounds: the most samples a window of blocks yields, the length of a run in
\* clock ticks, and the seconds of one tick
MaxSamples == 11
MaxTicks == 3
TickSeconds == 15

\* the gasPrice values transactions carry, ascending, and the values
\* w3.eth.gas_price reports
SampleSeq == <<40, 150, 900>>
SampleValues == Range(SampleSeq)
FeeValues == {0, 40, 300}

Total(c) == c[SampleSeq[1]] + c[SampleSeq[2]] + c[SampleSeq[3]]

\* the multisets of samples the loop over the last 10 blocks can collect
SampleCounts == {c \in [SampleValues -> 0..MaxSamples] : Total(c) <= MaxSamples}

\* gas_prices.sort()
SortedList(c) ==
    [i \in 1..Total(c) |->
        IF i <= c[SampleSeq[1]] THEN SampleSeq[1]
        ELSE IF i <= c[SampleSeq[1]] + c[SampleSeq[2]] THEN SampleSeq[2]
        ELSE SampleSeq[3]]

Max(a, b) == IF a >= b THEN a ELSE b
Min(a, b) == IF a <= b THEN a ELSE b

\* int(num / den) for den > 0: Python's int() truncates towards zero
Trunc(num, den) == IF num >= 0 THEN num \div den ELSE -((-num) \div den)

\* twice statistics.median(data) of a sorted, non-empty list (the median of an
\* even number of values is the mean of the middle two, a float)
Median2(data) ==
    LET n == Len(data)
    IN  IF n % 2 = 1 THEN 2 * data[(n + 1) \div 2]
        ELSE data[n \div 2] + data[n \div 2 + 1]

\* ten times statistics.quantiles(data, n=10)[i - 1], method 'exclusive', for a
\* sorted list of at least two values
Quantile10(data, i) ==
    LET ld == Len(data)
        m == ld + 1
        j0 == (i * m) \div 10
        j == IF j0 < 1 THEN 1 ELSE IF j0 > ld - 1 THEN ld - 1 ELSE j0
        delta == i * m - j * 10
    IN  data[j] * (10 - delta) + data[j + 1] * delta

PercentileSwapped(strategy, data) ==
    LET n == Len(data)
    IN  IF strategy = "fast" THEN Trunc(data[(n * 25) \div 100 + 1] * 105, 100)
        ELSE IF strategy = "economic" THEN Trunc(data[(n * 9) \div 10 + 1] * 105, 100)
        ELSE Trunc(Median2(data) * 105, 200)

\* temp_extract lines 59-74: percentile of the strategy, plus the 5% buffer
PercentileTE(strategy, data) ==
    LET n == Len(data)
    IN  IF strategy = "fast" THEN Trunc(data[(n * 9) \div 10 + 1] * 105, 100)
        ELSE IF strategy = "economic" THEN Trunc(data[(n * 25) \div 100 + 1] * 105, 100)
        ELSE Trunc(Median2(data) * 105, 200)

\* temp_extract lines 76-82: the network price scaled by the strategy's multiplier
MultiplierTE(strategy, gas_price) ==
    IF strategy = "fast" THEN Trunc(gas_price * 12, 10)
    ELSE IF strategy = "economic" THEN Trunc(gas_price * 9, 10)
    ELSE gas_price

\* utils lines 65-75 (at least two samples)
PercentileU(strategy, data) ==
    IF strategy = "fast" THEN Trunc(Trunc(Quantile10(data, 9), 10) * 11, 10)
    ELSE IF strategy = "economic" THEN Trunc(Quantile10(data, 3), 10)
    ELSE Trunc(Median2(data), 2)

\* What one pass through the try block yields: the path taken, the value
\* returned (None when the call raises) and whether the cache is written.
\* failure: "none", or the first read of the fee source that raises
\* ("gas_price", "block_number"); "get_block" is a failed fetch of some block,
\* which the inner try skips: counts holds what the other blocks gave.
Outcome(path, value, store) == [path |-> path, value |-> value, store |-> store]

\* temp_extract/utils/gas_price.py lines 40-101
ComputeTE(strategy, gas_price, counts, failure) ==
    IF failure \in {"gas_price", "block_number"}
        THEN Outcome("fallback", StandardGasPrice, FALSE)
    ELSE LET data == SortedList(counts)
         IN  IF Len(data) >= MinSamples
                 THEN Outcome("percentile",
                              Max(PercentileTE(strategy, data), MinGasPrice), TRUE)
                 ELSE Outcome("multiplier",
                              Max(MultiplierTE(strategy, gas_price), MinGasPrice), TRUE)

\* utils/gas_price.py lines 40-95; the except branch reads w3.eth.gas_price again
ComputeU(strategy, gas_price, counts, failure) ==
    IF failure = "gas_price" THEN Outcome("raised", None, FALSE)
    ELSE IF failure = "block_number" THEN Outcome("fallback", gas_price, FALSE)
    ELSE LET data == SortedList(counts)
         IN  IF Len(data) = 0 THEN Outcome("multiplier", gas_price, TRUE)
             ELSE IF Len(data) < 2 /\ strategy # "balanced"
                 \* statistics.quantiles raises StatisticsError
                 THEN Outcome("fallback", gas_price, FALSE)
             ELSE Outcome("percentile",
                          Max(PercentileU(strategy, data), gas_price), TRUE)

Compute(which, strategy, gas_price, counts, failure) ==
    IF which = "temp_extract" THEN ComputeTE(strategy, gas_price, counts, failure)
    ELSE ComputeU(strategy, gas_price, counts, failure)

\* line 37: if last_gas_price and (current_time - last_gas_update) < GAS_PRICE_CACHE_TTL
CacheHit ==
    /\ last_gas_price # None /\ last_gas_price # 0
    /\ now - last_gas_update < GAS_PRICE_CACHE_TTL

\* history: a price is cached and its age is below the TTL
CachedWithinTTL ==
    /\ last_gas_price # None
    /\ now - last_gas_update < GAS_PRICE_CACHE_TTL

NoCall ==
    [strategy |-> "balanced", path |-> "none", value |-> None, failure |-> "none",
     withinTTL |-> FALSE, cached |-> None, cachedFor |-> "balanced", queried |-> FALSE]

GasParked ==
    /\ impl = "temp_extract"
    /\ last_gas_price = None
    /\ last_gas_update = 0
    /\ last_gas_tier = "balanced"
    /\ now = 0
    /\ gout = NoCall

GasInit ==
    /\ impl \in Impls
    /\ last_gas_price = None
    /\ last_gas_update = 0
    /\ last_gas_tier = "balanced"
    /\ now = 0
    /\ gout = NoCall

\* the windows of samples a call of the oracle meets in SpecGas: of every size
\* up to MaxSamples, split evenly between the lowest and the highest price
CallWindows ==
    {[v \in SampleValues |->
         IF v = SampleSeq[1] THEN (n + 1) \div 2
         ELSE IF v = SampleSeq[3] THEN n \div 2
         ELSE 0] : n \in 0..MaxSamples}

\* get_optimal_gas_price(w3, strategy): one call, from the cache check to the return
GetOptimalGasPrice(strategy, gas_price, counts, failure) ==
    LET before == [NoCall EXCEPT !.strategy = strategy,
                                 !.withinTTL = CachedWithinTTL,
                                 !.cached = last_gas_price,
                                 !.cachedFor = last_gas_tier]
    IN  IF CacheHit
            THEN /\ gout' = [before EXCEPT !.path = "cached", !.value = last_gas_price]
                 /\ UNCHANGED <<last_gas_price, last_gas_update, last_gas_tier>>
            ELSE LET r == Compute(impl, strategy, gas_price, counts, failure)
                 IN  /\ gout' = [before EXCEPT !.path = r.path, !.value = r.value,
                                               !.failure = failure, !.queried = TRUE]
                     /\ IF r.store
                            THEN /\ last_gas_price' = r.value
                                 /\ last_gas_update' = now
                                 /\ last_gas_tier' = strategy
                            ELSE UNCHANGED <<last_gas_price, last_gas_update, last_gas_tier>>

Estimate ==
    /\ \E strategy \in Strategies, gas_price \in FeeValues, counts \in CallWindows,
          failure \in {"none", "gas_price", "block_number", "get_block"} :
           GetOptimalGasPrice(strategy, gas_price, counts, failure)
    /\ UNCHANGED <<impl, now, busVars, tiers, memVars, pipeVars, auxVars>>

\* time passes
Tick ==
    /\ now < MaxTicks * TickSeconds
    /\ now' = now + TickSeconds
    /\ UNCHANGED <<impl, last_gas_price, last_gas_update, last_gas_tier, gout,
                   busVars, tiers, memVars, pipeVars, auxVars>>

NextGas == Estimate \/ Tick

TiersParked == tiers = [which |-> "temp_extract", gas_price |-> 0,
                        counts |-> [v \in SampleValues |-> 0], out |-> <<>>]

\* SpecTiers: the three strategies computed fresh (no cache, no failure) from
\* one window of samples and one network price
TiersInit ==
    \E which \in Impls, gas_price \in FeeValues, counts \in SampleCounts :
        tiers = [which |-> which, gas_price |-> gas_price, counts |-> counts, out |-> <<>>]

ComputeTiers ==
    /\ tiers.out = <<>>
    /\ tiers' = [tiers EXCEPT !.out =
                    [st \in Strategies |->
                        Compute(tiers.which, st, tiers.gas_price, tiers.counts, "none").value]]
    /\ UNCHANGED <<busVars, gasVars, memVars, pipeVars, auxVars>>

NextTiers == ComputeTiers

----------------------------------------------------------------------------
\* MempoolMonitor: the connect loop

\* max_retries = 10, retry_delay = 5, min(retry_delay * 2, 60)
max_retries == 10
BaseDelay == 5
MaxDelay == 60

\* bounds: successful subscriptions of one run of the loop, and the value at
\* which the history counter of consecutive failures saturates
MaxSuccesses == 1
MaxStreak == 12

NoWait == [seconds |-> 0, branch |-> "none"]

\* n: consecutive failed attempts since the task started or last subscribed
\* (saturating), counted: all of them ended in the first except branch,
\* fresh: no subscription has succeeded yet, total: failures that ended in
\* the first except branch since the task started, successes: subscriptions,
\* last: what the latest failure was
NoStreak == [n |-> 0, counted |-> TRUE, fresh |-> TRUE, total |-> 0, successes |-> 0,
             last |-> "none"]

\* MempoolMonitor.__init__, lines 42-53: the connection and the running state
MempoolInit ==
    /\ running = FALSE
    /\ ws = "none"
    /\ mpc = "idle"
    /\ retry_count = 0
    /\ retry_delay = BaseDelay
    /\ wait = NoWait
    /\ streak = NoStreak

Failed(st, isCounted, kind) ==
    [st EXCEPT !.n = Min(@ + 1, MaxStreak),
               !.counted = @ /\ isCounted,
               !.total = IF isCounted THEN @ + 1 ELSE @,
               !.last = kind]

\* the transaction hashes of the feed
Hashes == {"x1", "x2", "x3"}

\* bounds: the batch size (20 in the source), the cap of the dedup set and the
\* number of entries kept on overflow (10000 and 5000 in the source), and the
\* number of notifications counted by tx_count
BatchSize == 2
DedupCap == 2
DedupKeep == 1
MaxTxCount == 4

\* per hash: whether the feed has delivered it a second time, its runs of
\* _process_transaction and its publications (both saturating at 2), the value
\* of tx_count when it entered pending_txs (0 when it is not pending), whether
\* a fetch found it gone, whether it was dropped from processed_txs by an
\* overflow
NoHist == [again |-> FALSE, classified |-> 0, published |-> 0, seenAt |-> 0,
           unfetchable |-> FALSE, evicted |-> FALSE]

\* MempoolMonitor.__init__, lines 45-58: transaction tracking
PipelineInit ==
    /\ pending_txs = <<>>
    /\ processed_txs = {}
    /\ tx_count = 0
    /\ ppc = "idle"
    /\ tx_hashes = <<>>
    /\ fetch = [h \in Hashes |-> "none"]
    /\ published = {}
    /\ hist = [h \in Hashes |-> NoHist]
    /\ procOrder = <<>>

\* start, lines 95-113: both tasks are created; the connect task runs lines
\* 140-152 up to its first await, the connect (self.ws is None or closed
\* there, there is nothing to close).  start is called when the tasks of an
\* earlier run have ended.
MStart ==
    /\ ~running
    /\ mpc \in {"idle", "done"}
    /\ ppc \in {"idle", "done"}
    /\ running' = TRUE
    /\ mpc' = "connect"
    /\ ppc' = "loop"
    /\ retry_count' = 0
    /\ retry_delay' = BaseDelay
    /\ wait' = NoWait
    /\ streak' = NoStreak
    /\ UNCHANGED <<ws, pending_txs, processed_txs, tx_count, tx_hashes, fetch, published,
                   hist, procOrder, busVars, gasVars, tiers, auxVars>>

\* stop, lines 115-136: the tasks are cancelled at their awaits (CancelledError
\* is no Exception, no except clause of the connect loop catches it; the batch
\* loop breaks on it, lines 260-261) and the socket is closed.  The hashes of
\* a cancelled batch stay in pending_txs.
MStop ==
    /\ running
    /\ running' = FALSE
    /\ mpc' = "done"
    /\ ppc' = "done"
    /\ ws' = IF ws = "none" THEN "none" ELSE "closed"
    /\ wait' = NoWait
    /\ tx_hashes' = <<>>
    /\ fetch' = [h \in Hashes |-> "none"]
    /\ UNCHANGED <<retry_count, retry_delay, streak, pending_txs, processed_txs, tx_count,
                   published, hist, procOrder, busVars, gasVars, tiers, auxVars>>

RetryDelayTripled(delay) == Min(delay * 3, MaxDelay)

\* line 201: retry_delay = min(retry_delay * 2, 60)
NextRetryDelay(delay) == Min(delay * 2, MaxDelay)

\* lines 188-198: except (ConnectionClosed, InvalidStatusCode, ConnectionRefusedError);
\* on exhaustion the error is logged and the loop left, nothing is published
CountedFailure(kind) ==
    /\ retry_count' = retry_count + 1
    /\ streak' = Failed(streak, TRUE, kind)
    /\ IF retry_count + 1 > max_retries
           THEN /\ running' = FALSE
                /\ mpc' = "done"
                /\ wait' = NoWait
           ELSE /\ running' = running
                /\ mpc' = "sleep"
                /\ wait' = [seconds |-> retry_delay, branch |-> "counted"]
    /\ UNCHANGED retry_delay

\* lines 203-205: except Exception
OtherFailure(kind) ==
    /\ streak' = Failed(streak, FALSE, kind)
    /\ mpc' = "sleep"
    /\ wait' = [seconds |-> retry_delay, branch |-> "other"]
    /\ UNCHANGED <<running, retry_count, retry_delay>>

\* the top of the outer loop, lines 144-152, up to the await of the connect
LoopTop == IF running THEN "connect" ELSE "done"

\* lines 182-184 (and 185-186): the loop goes round at once: no count, no sleep
ReconnectAtOnce ==
    /\ mpc' = LoopTop
    /\ UNCHANGED <<running, retry_count, retry_delay, wait>>

ImmediateRetry(kind) ==
    /\ streak' = Failed(streak, FALSE, kind)
    /\ ReconnectAtOnce

\* line 152: websockets.connect resolves
Connect(outcome) ==
    /\ mpc = "connect"
    /\ \/ /\ outcome = "ok"
          /\ ws' = "open"
          /\ mpc' = "subscribe"
          /\ UNCHANGED <<running, retry_count, retry_delay, wait, streak>>
       \/ /\ outcome = "refused"      \* ConnectionRefusedError, InvalidStatusCode
          /\ CountedFailure("refused")
          /\ UNCHANGED ws
       \/ /\ outcome = "error"        \* any other exception, e.g. a timeout or OSError
          /\ OtherFailure("error")
          /\ UNCHANGED ws
    /\ UNCHANGED <<pipeVars, busVars, gasVars, tiers, auxVars>>

\* lines 162-171 and 185-186: the subscription request and its reply
SubscribeReply(outcome) ==
    /\ mpc = "subscribe"
    /\ \/ /\ outcome = "result"
          /\ streak.successes < MaxSuccesses
          /\ retry_count' = 0
          /\ mpc' = "streaming"
          /\ streak' = [streak EXCEPT !.n = 0, !.counted = TRUE, !.fresh = FALSE,
                                      !.successes = @ + 1]
          /\ UNCHANGED <<running, retry_delay, wait>>
       \/ /\ outcome = "no_result"    \* logged; the loop goes round without a sleep
          /\ ImmediateRetry("no_result")
       \/ /\ outcome = "closed"       \* ConnectionClosed from send or recv
          /\ CountedFailure("closed")
       \/ /\ outcome = "error"        \* e.g. a reply that is not JSON
          /\ OtherFailure("error")
    /\ UNCHANGED <<ws, pipeVars, busVars, gasVars, tiers, auxVars>>

SkipNever(processed, tx_hash) == FALSE

\* lines 223-225: skip if already processed
SkipProcessed(processed, tx_hash) == tx_hash \in processed

\* _handle_websocket_message, lines 207-234: a subscription notification
\* carries a hash; any other message (another method, no result, invalid
\* JSON) changes nothing.  Assigning to a key that the dict already holds
\* keeps the key's position.
HandleMessage(msg) ==
    IF msg \notin Hashes
        THEN UNCHANGED <<pending_txs, tx_count, hist>>
        ELSE IF SkipProcessed(processed_txs, msg)
            THEN /\ hist' = [hist EXCEPT ![msg].again = TRUE]
                 /\ UNCHANGED <<pending_txs, tx_count>>
            ELSE /\ tx_count < MaxTxCount
                 /\ tx_count' = tx_count + 1
                 /\ pending_txs' = IF msg \in Range(pending_txs) THEN pending_txs
                                   ELSE Append(pending_txs, msg)
                 /\ hist' = [hist EXCEPT
                                ![msg].again = @ \/ msg \in Range(pending_txs)
                                                 \/ hist[msg].classified > 0,
                                ![msg].seenAt = IF msg \in Range(pending_txs) THEN @
                                                ELSE tx_count + 1]

\* lines 174-184: one round of the inner loop
Streaming(event, msg) ==
    /\ mpc = "streaming"
    /\ \/ /\ event = "message"        \* recv returns within 30 s
          /\ HandleMessage(msg)
          /\ mpc' = IF running THEN "streaming" ELSE LoopTop
          /\ UNCHANGED <<running, retry_count, retry_delay, wait, streak>>
       \/ /\ event = "ping_ok"        \* no message for 30 s, the pong arrives
          /\ mpc' = IF running THEN "streaming" ELSE LoopTop
          /\ UNCHANGED <<running, retry_count, retry_delay, wait, streak,
                         pending_txs, tx_count, hist>>
       \/ /\ event = "recv_closed"    \* ConnectionClosed from recv: break, no sleep
          /\ ImmediateRetry("recv_closed")
          /\ UNCHANGED <<pending_txs, tx_count, hist>>
       \/ /\ event = "ping_closed"    \* ConnectionClosed raised inside the except
          /\ CountedFailure("ping_closed")   \* TimeoutError handler leaves the inner try
          /\ UNCHANGED <<pending_txs, tx_count, hist>>
       \/ /\ event = "ping_timeout"   \* asyncio.TimeoutError from wait_for(pong)
          /\ OtherFailure("ping_timeout")
          /\ UNCHANGED <<pending_txs, tx_count, hist>>
    /\ UNCHANGED <<ws, processed_txs, ppc, tx_hashes, fetch, published, procOrder,
                   busVars, gasVars, tiers, auxVars>>

\* lines 198-201 and 205: asyncio.sleep(retry_delay) returns
Wake ==
    /\ mpc = "sleep"
    /\ retry_delay' = IF wait.branch = "counted" THEN NextRetryDelay(retry_delay)
                      ELSE retry_delay
    /\ wait' = NoWait
    /\ mpc' = LoopTop
    /\ UNCHANGED <<running, ws, retry_count, streak, pipeVars, busVars, gasVars, tiers,
                   auxVars>>

\* _process_pending_transactions, line 238: the loop ends when running is false
ProcessExit ==
    /\ ppc = "loop"
    /\ ~running
    /\ ppc' = "done"
    /\ UNCHANGED <<pending_txs, processed_txs, tx_count, tx_hashes, fetch, published,
                   hist, procOrder, memVars, busVars, gasVars, tiers, auxVars>>

NextMempool ==
    \/ MStart
    \/ MStop
    \/ \E outcome \in {"ok", "refused", "error"} : Connect(outcome)
    \/ \E outcome \in {"result", "no_result", "closed", "error"} : SubscribeReply(outcome)
    \/ \E event \in {"message", "ping_ok", "recv_closed", "ping_closed", "ping_timeout"} :
           Streaming(event, "other")
    \/ Wake
    \/ ProcessExit

\* A feed that fails every connection: no notification ever arrives
NextFailingFeed ==
    \/ MStart
    \/ \E outcome \in {"ok", "refused", "error"} : Connect(outcome)
    \/ \E outcome \in {"result", "no_result", "closed", "error"} : SubscribeReply(outcome)
    \/ \E event \in {"recv_closed", "ping_closed", "ping_timeout"} :
           Streaming(event, "other")
    \/ Wake
    \/ ProcessExit

----------------------------------------------------------------------------
\* MempoolMonitor: the classification batches

TakeAll(keys) == keys

\* line 241: list(self.pending_txs.keys())[:20]
TakeBatch(keys) == SubSeq(keys, 1, Min(Len(keys), BatchSize))

\* lines 241-249: a batch is taken and one _process_transaction per hash is
\* gathered (with no pending hash the task sleeps 10 ms and looks again)
ProcessBatch ==
    /\ ppc = "loop"
    /\ running
    /\ pending_txs # <<>>
    /\ tx_hashes' = TakeBatch(pending_txs)
    /\ fetch' = [h \in Hashes |-> IF h \in Range(TakeBatch(pending_txs)) THEN "pending"
                                  ELSE "none"]
    /\ ppc' = "gather"
    /\ UNCHANGED <<pending_txs, processed_txs, tx_count, published, hist, procOrder,
                   memVars, busVars, gasVars, tiers, auxVars>>

\* what one _process_transaction can come to, lines 266-314: the transaction
\* is fetched and interesting (published), fetched and not interesting,
\* no longer in the mempool (None or TransactionNotFound), or an error is
\* caught and logged
FetchOutcomes == {"interesting", "boring", "unfetchable", "error"}

\* _process_transaction, lines 266-296
ProcessTransaction(h, outcome) ==
    /\ ppc = "gather"
    /\ fetch[h] = "pending"
    /\ fetch' = [fetch EXCEPT ![h] = "done"]
    /\ hist' = [hist EXCEPT
                   ![h].classified = Min(@ + 1, 2),
                   ![h].published = IF outcome = "interesting" THEN Min(@ + 1, 2) ELSE @,
                   ![h].unfetchable = @ \/ outcome = "unfetchable"]
    /\ published' = IF outcome = "interesting"
                        THEN published \cup {"interesting_transaction"}
                        ELSE published
    /\ UNCHANGED <<pending_txs, processed_txs, tx_count, ppc, tx_hashes, procOrder,
                   memVars, busVars, gasVars, tiers, auxVars>>

\* lines 257-258: set(list(self.processed_txs)[-5000:]); the order in which
\* a set is listed is not the order of insertion, so any DedupKeep of its
\* elements can be the ones kept
EvictionChoices(all) ==
    IF Cardinality(all) > DedupCap
        THEN {kept \in SUBSET all : Cardinality(kept) = DedupKeep}
        ELSE {all}

\* lines 249-258: gather returns; the batch leaves pending_txs and enters
\* processed_txs, which is cut down when it exceeds its cap
BatchDone ==
    /\ ppc = "gather"
    /\ \A h \in Range(tx_hashes) : fetch[h] = "done"
    /\ pending_txs' = SelectSeq(pending_txs, LAMBDA x : x \notin Range(tx_hashes))
    /\ \E kept \in EvictionChoices(processed_txs \cup Range(tx_hashes)) :
           /\ processed_txs' = kept
           /\ procOrder' = SelectSeq(procOrder \o tx_hashes, LAMBDA x : x \in kept)
           /\ hist' = [h \in Hashes |->
                          [hist[h] EXCEPT
                              !.evicted = @ \/ h \in (processed_txs \cup Range(tx_hashes)) \ kept,
                              !.seenAt = IF h \in Range(tx_hashes) THEN 0 ELSE @]]
    /\ tx_hashes' = <<>>
    /\ fetch' = [h \in Hashes |-> "none"]
    /\ ppc' = "loop"
    /\ UNCHANGED <<tx_count, published, memVars, busVars, gasVars, tiers, auxVars>>

\* one run of the monitor on a healthy feed: the connection is made, the
\* subscription confirmed, and notifications arrive while batches are classified
NextPipeline ==
    \/ MStart
    \/ Connect("ok")
    \/ SubscribeReply("result")
    \/ \E msg \in Hashes \cup {"other"} : Streaming("message", msg)
    \/ ProcessBatch
    \/ \E h \in Hashes, outcome \in FetchOutcomes : ProcessTransaction(h, outcome)
    \/ BatchDone

\* the pipeline with stop (and start again)
NextShutdown ==
    \/ NextPipeline
    \/ MStop

----------------------------------------------------------------------------
\* MempoolMonitor: the classification decision.  Call data is the sequence of
\* its bytes: the string the code tests is "0x" followed by two hex digits
\* per byte.

Addresses == {"A", "B"}
RawAddresses == {"a", "B"}
Bytes == {"aa", "bb"}
SelA == <<"aa", "aa", "aa", "aa">>
SelB == <<"bb", "bb", "bb", "bb">>

\* tx["input"]: missing (kind "None"), the empty string (kind "empty"), or
\* "0x..." of 0, 1, 4 or 5 bytes (kind "hex")
InputValues ==
    {[kind |-> "None", bytes |-> <<>>], [kind |-> "empty", bytes |-> <<>>]}
    \cup {[kind |-> "hex", bytes |-> b] :
             b \in {<<>>, <<"aa">>, SelA, SelB, SelA \o <<"bb">>,
                    <<"aa", "aa", "aa", "bb">>}}

CallbackOutcomes == {"True", "False", "raise"}

\* Web3.to_checksum_address, lines 69 and 80
to_checksum_address(address) == IF address = "a" THEN "A" ELSE address

\* len() of the string "0x..."
StrLen(input) == IF input.kind = "hex" THEN 2 + 2 * Len(input.bytes) ELSE 0

\* input_data[:10]: "0x" and the first four bytes
MethodId(input) == SubSeq(input.bytes, 1, Min(Len(input.bytes), 4))

EmptyInputNever(input) == FALSE

\* line 327: not tx.get("input") or tx["input"] == "0x"
EmptyInput(input) ==
    \/ input.kind \in {"None", "empty"}
    \/ input.kind = "hex" /\ input.bytes = <<>>

\* _is_interesting_transaction, lines 316-355, for a transaction with call
\* data input and recipient to, the registries of the monitor and what the
\* registered callback does when it is called
is_interesting_transaction(input, to, interesting_addresses, interesting_methods, callback) ==
    IF EmptyInput(input) THEN FALSE
    ELSE IF to # "None" /\ to \in interesting_addresses THEN TRUE
    ELSE IF /\ to # "None"
            /\ \E m \in interesting_methods : m[1] = to
            /\ StrLen(input) >= 10
            /\ <<to, MethodId(input)>> \in interesting_methods
         THEN callback = "True"      \* a raise is caught and logged, line 352
    ELSE FALSE

ClassifyParked ==
    cls = [input |-> [kind |-> "None", bytes |-> <<>>], to |-> "None",
           addresses |-> {}, methods |-> {},
           callback |-> "True", out |-> "none"]

\* one transaction and one state of the registries, as register_interesting_address
\* (line 69) and register_interesting_method (lines 80-91) leave them
ClassifyInit ==
    \E input \in InputValues, to \in Addresses \cup {"None"},
       raw \in SUBSET RawAddresses,
       methods \in SUBSET {<<"a", SelA>>, <<"B", SelB>>, <<"B", SelA>>},
       callback \in CallbackOutcomes :
        cls = [input |-> input, to |-> to,
               addresses |-> {to_checksum_address(r) : r \in raw},
               methods |-> {<<to_checksum_address(m[1]), m[2]>> : m \in methods},
               callback |-> callback, out |-> "none"]

Classify ==
    /\ cls.out = "none"
    /\ cls' = [cls EXCEPT !.out =
                  IF is_interesting_transaction(cls.input, cls.to, cls.addresses,
                                                cls.methods, cls.callback)
                      THEN "True" ELSE "False"]
    /\ UNCHANGED <<busVars, gasVars, tiers, memVars, pipeVars, gate, extVars>>

NextClassify == Classify

----------------------------------------------------------------------------
\* The profitability gates.  Amounts are in tenths of the unit of account.

AmountValues == {0, 50, 76, 80, 100}
FeeCostValues == {0, 10, 20}
LoanPremiumValues == {0, 10}
ThresholdValues == {0, 50, 76, 80}

\* is_transaction_profitable, lines 136-162:
\* expected_profit_eth > cost_eth * 1.2
is_transaction_profitable(expected_profit_eth, cost_eth) ==
    expected_profit_eth * 10 > cost_eth * 12

\* AdvancedFlashLoanStrategy._calculate_flash_loan_fees, lines 338-350
calculate_flash_loan_fees(opportunity) == 0

\* AdvancedFlashLoanStrategy._is_profitable, lines 310-336
is_profitable(opportunity, gas_cost, MIN_PROFIT_THRESHOLD) ==
    opportunity.expected_profit - gas_cost - calculate_flash_loan_fees(opportunity)
        > MIN_PROFIT_THRESHOLD

GateParked ==
    gate = [gross |-> 0, fee |-> 0, loan |-> 0, threshold |-> 0,
            done |-> FALSE, transaction |-> FALSE, flash_loan |-> FALSE]

GateInit ==
    \E gross \in AmountValues, fee \in FeeCostValues, loan \in LoanPremiumValues,
       threshold \in ThresholdValues :
        gate = [gross |-> gross, fee |-> fee, loan |-> loan, threshold |-> threshold,
                done |-> FALSE, transaction |-> FALSE, flash_loan |-> FALSE]

\* the opportunity is put to both gates
EvaluateGates ==
    /\ ~gate.done
    /\ gate' = [gate EXCEPT
                   !.done = TRUE,
                   !.transaction = is_transaction_profitable(gate.gross, gate.fee),
                   !.flash_loan =
                       is_profitable([expected_profit |-> gate.gross, loan |-> gate.loan],
                                     gate.fee, gate.threshold)]
    /\ UNCHANGED <<busVars, gasVars, tiers, memVars, pipeVars, cls, extVars>>

NextGate == EvaluateGates

----------------------------------------------------------------------------
\* Order sizing (src/temp_extract/utils/adaptive_parameters.py and
\* src/temp_extract/utils/profitability.py).  Spreads and slippages are in
\* hundredths of a percent, the risk tolerance in tenths.

\* an optional value (None or a value) is a sequence of length 0 or 1
Opt(values) == {<<>>} \cup {<<v>> : v \in values}

Clamp(x, lo, hi) == Max(lo, Min(x, hi))

\* the unit of a performance factor: 1.0 is FactorScale
FactorScale == 120000

\* the entry of exchange_performance of one exchange; an exchange that is not
\* in the dict has execution_count 0 here (lines 245-253 return 1.0 for both).
\* total_slippage is in hundredths of a percent.
PerfValues ==
    { [execution_count |-> 0, success_count |-> 0, total_slippage |-> 0],
      [execution_count |-> 1, success_count |-> 1, total_slippage |-> 0],
      [execution_count |-> 2, success_count |-> 1, total_slippage |-> 1000],
      [execution_count |-> 2, success_count |-> 0, total_slippage |-> 4000] }

\* AdaptiveParameters._get_exchange_performance_factor, lines 243-271:
\* (success_rate * 1.5 + max(0.5, 1 - avg_slippage / 20)) / 2, kept in [0.5, 1.5]
get_exchange_performance_factor(perf) ==
    IF perf.execution_count = 0
        THEN FactorScale
        ELSE Clamp(((FactorScale \div 4000)
                       * (3000 * perf.success_count
                          + Max(1000 * perf.execution_count,
                                2000 * perf.execution_count - perf.total_slippage)))
                     \div perf.execution_count,
                   FactorScale \div 2, (3 * FactorScale) \div 2)

\* lines 66-75: the share of max_size for a spread, in percent
BaseSizePercent(spread) ==
    IF spread < 20 THEN 10
    ELSE IF spread < 50 THEN 25
    ELSE IF spread < 100 THEN 50
    ELSE IF spread < 200 THEN 75
    ELSE 100

\* a share of max_size in the unit of calculate_position_size below
ShareOfMaxSize(percent) == percent * 2 * FactorScale

\* AdaptiveParameters.calculate_position_size, lines 62-92.  The result is in
\* units of max_size / (200 * FactorScale), in which the rounding to four
\* decimals of line 92 changes nothing.
calculate_position_size(spread, perf_1, perf_2) ==
    LET adjusted_size == BaseSizePercent(spread)
                            * (get_exchange_performance_factor(perf_1)
                               + get_exchange_performance_factor(perf_2))
        min_viable_size == ShareOfMaxSize(1)
    IN  Max(adjusted_size, min_viable_size)

\* the slippage model handed to calculate_optimal_trade_size: None, or a dict
\* with market_liquidity and order_book_depth.  The liquidity is in multiples
\* of available_capital (20 is the default of line 182); the order book is
\* None, or the smaller of its ask and bid volumes in multiples of
\* available_capital.
LiquidityValues == {0, 2, 20}
DepthValues == {0, 3, 30}
SlippageModels ==
    Opt([market_liquidity : LiquidityValues, order_book_depth : Opt(DepthValues)])

\* estimate_slippage_impact, lines 87-139, for an order of tenths/10 of the
\* capital; the result is in hundredths of a percent
estimate_slippage_impact(tenths, market_liquidity, order_book_depth) ==
    IF market_liquidity <= 0 THEN 500
    ELSE LET base_slippage == (1000 * tenths) \div market_liquidity
             depth == order_book_depth[1]
             \* volume_ratio = tenths / (10 * depth), 1 for an empty book
             adjusted_slippage ==
                 IF depth > 0 /\ 10 * tenths < depth THEN (base_slippage * 5) \div 10
                 ELSE IF depth > 0 /\ 2 * tenths < depth THEN (base_slippage * 8) \div 10
                 ELSE IF depth > 0 /\ tenths < 2 * depth THEN (base_slippage * 12) \div 10
                 ELSE base_slippage * 2
             slippage == IF order_book_depth = <<>> THEN base_slippage
                                                    ELSE adjusted_slippage
         IN  Max(5, Min(1000, slippage))

SpreadValues == {-50, 0, 10, 19, 20, 50, 90, 100, 200, 250, 300}

\* line 167: 1 - math.exp(-spread_percentage), in ten-thousandths, for the
\* spreads of SpreadValues
BaseAllocation(spread) ==
    CASE spread = 10 -> 951
      [] spread = 19 -> 1730
      [] spread = 20 -> 1812
      [] spread = 50 -> 3934
      [] spread = 90 -> 5934
      [] spread = 100 -> 6321
      [] spread = 200 -> 8646
      [] spread = 250 -> 9179
      [] spread = 300 -> 9502

\* lines 189-195: the last index of the leading run of test sizes whose
\* doubled slippage is below the spread, 0 when the run is empty
RECURSIVE OptimalIdx(_, _, _)
OptimalIdx(spread, slippages, i) ==
    IF i > Len(slippages) \/ ~(spread > slippages[i] * 2)
        THEN Max(0, i - 2)
        ELSE OptimalIdx(spread, slippages, i + 1)

\* lines 197-200: the allocation is cut only when optimal_idx > 0
SlippageCapSkipZero(adjusted_allocation, optimal_idx) ==
    IF optimal_idx > 0 THEN Min(adjusted_allocation, (optimal_idx + 1) * 1000)
                       ELSE adjusted_allocation

\* calculate_optimal_trade_size, lines 141-215: the share of available_capital,
\* in ten-thousandths
calculate_optimal_trade_size(spread, slippage_model, risk_tolerance) ==
    IF spread <= 0 THEN 0
    ELSE LET adjusted_allocation == (BaseAllocation(spread) * risk_tolerance) \div 10
             model == slippage_model[1]
             slippages == [i \in 1..10 |->
                              estimate_slippage_impact(i, model.market_liquidity,
                                                       model.order_book_depth)]
             with_slippage ==
                 IF slippage_model = <<>>
                     THEN adjusted_allocation
                     ELSE SlippageCapSkipZero(adjusted_allocation,
                                              OptimalIdx(spread, slippages, 1))
             final_allocation == Min(9500, with_slippage)
         IN  IF final_allocation > 0 THEN Max(500, final_allocation)
                                     ELSE final_allocation

RiskValues == {0, 5, 10, 20}

SizingParked ==
    sizing = [spread_1 |-> 0, spread_2 |-> 0, perf_1 |-> CHOOSE p \in PerfValues : p.execution_count = 0,
              perf_2 |-> CHOOSE p \in PerfValues : p.execution_count = 0,
              slippage_model |-> <<>>, risk_tolerance |-> 10, done |-> FALSE,
              position_1 |-> 0, position_2 |-> 0, optimal_1 |-> 0, optimal_2 |-> 0]

\* two spreads, the smaller first, and one market for both
SizingInit ==
    \E spread_1 \in SpreadValues, spread_2 \in SpreadValues,
       perf_1 \in PerfValues, perf_2 \in PerfValues,
       slippage_model \in SlippageModels, risk_tolerance \in RiskValues :
        /\ spread_1 <= spread_2
        /\ sizing = [spread_1 |-> spread_1, spread_2 |-> spread_2,
                     perf_1 |-> perf_1, perf_2 |-> perf_2,
                     slippage_model |-> slippage_model,
                     risk_tolerance |-> risk_tolerance, done |-> FALSE,
                     position_1 |-> 0, position_2 |-> 0,
                     optimal_1 |-> 0, optimal_2 |-> 0]

\* both sizing functions are applied to both spreads
EvaluateSizing ==
    /\ ~sizing.done
    /\ sizing' = [sizing EXCEPT
          !.done = TRUE,
          !.position_1 = calculate_position_size(sizing.spread_1, sizing.perf_1, sizing.perf_2),
          !.position_2 = calculate_position_size(sizing.spread_2, sizing.perf_1, sizing.perf_2),
          !.optimal_1 = calculate_optimal_trade_size(sizing.spread_1, sizing.slippage_model,
                                                     sizing.risk_tolerance),
          !.optimal_2 = calculate_optimal_trade_size(sizing.spread_2, sizing.slippage_model,
                                                     sizing.risk_tolerance)]
    /\ UNCHANGED <<busVars, gasVars, tiers, memVars, pipeVars, cls, gate, bundleVars, adaptVars,
                   lateVars>>

NextSizing == EvaluateSizing

----------------------------------------------------------------------------
\* FlashbotsManager.submit_bundle (src/mev/flashbots.py)

\* the two relays of lines 119-120
Endpoints == {"flashbots", "eden"}

\* data["transactions"]: no list or an empty one, a list of signed
\* transactions or hex strings, a list with an element of another type
TransactionLists == {"empty", "wellformed", "malformed"}

\* data["target_block"]: None or a block number
TargetBlocks == Opt({0, 100})

\* how a request that was sent ends: a 200 response, a response with another
\* status (ValueError, lines 197-199), the client's timeout (line 52)
RelayOutcomes == {"response", "status", "timeout"}

\* the results that are exceptions
EndpointErrors == {"format", "status", "timeout"}

\* the number of submit_bundle calls of a behaviour
MaxBundles == 2

NoSubmission ==
    [pc |-> "idle", transactions |-> "empty", target_block |-> <<>>,
     results |-> [e \in Endpoints |-> "none"], raised |-> FALSE, value |-> <<>>,
     calls |-> 0, issued |-> 0]

BundleInit ==
    /\ sub = NoSubmission
    /\ bundles_submitted = 0
    /\ bundle_events = <<>>

\* line 114: not transactions or not target_block
MissingInput(transactions, target_block) ==
    \/ transactions = "empty"
    \/ target_block = <<>>
    \/ target_block = <<0>>

\* submit_bundle up to its await, lines 103-123: without transactions or a
\* target block it logs and returns; otherwise gather schedules one task per relay
SubmitBundle(transactions, target_block) ==
    /\ sub.pc \in {"idle", "returned"}
    /\ sub.calls < MaxBundles
    /\ sub' = IF MissingInput(transactions, target_block)
                 THEN [sub EXCEPT !.pc = "returned", !.transactions = transactions,
                                  !.target_block = target_block,
                                  !.results = [e \in Endpoints |-> "none"],
                                  !.raised = FALSE, !.value = <<>>,
                                  !.calls = @ + 1]
                 ELSE [sub EXCEPT !.pc = "gather", !.transactions = transactions,
                                  !.target_block = target_block,
                                  !.results = [e \in Endpoints |-> "unstarted"],
                                  !.raised = FALSE, !.value = <<>>,
                                  !.calls = @ + 1, !.issued = @ + 1]
    /\ UNCHANGED <<bundles_submitted, bundle_events>>
    /\ UNCHANGED <<busVars, gasVars, tiers, memVars, pipeVars, cls, gate, sizing, adaptVars,
                   lateVars>>

\* _submit_to_flashbots / _submit_to_eden up to the POST, lines 163-195 and
\* 215-246: an element of unsupported format raises ValueError in the task
EndpointStart(e) ==
    /\ sub.pc = "gather"
    /\ sub.results[e] = "unstarted"
    /\ sub' = [sub EXCEPT !.results[e] = IF sub.transactions = "malformed"
                                            THEN "format" ELSE "posting"]
    /\ UNCHANGED <<bundles_submitted, bundle_events>>
    /\ UNCHANGED <<busVars, gasVars, tiers, memVars, pipeVars, cls, gate, sizing, adaptVars,
                   lateVars>>

\* lines 196-202 and 247-253: the relay answers or the client times out
EndpointResolve(e, outcome) ==
    /\ sub.pc = "gather"
    /\ sub.results[e] = "posting"
    /\ sub' = [sub EXCEPT !.results[e] = outcome]
    /\ UNCHANGED <<bundles_submitted, bundle_events>>
    /\ UNCHANGED <<busVars, gasVars, tiers, memVars, pipeVars, cls, gate, sizing, adaptVars,
                   lateVars>>

\* gather(..., return_exceptions=True) returns once no task is left
ReturnOnFirstError(results) ==
    \/ \E e \in Endpoints : results[e] \in EndpointErrors
    \/ \A e \in Endpoints : results[e] \in {"response"} \cup EndpointErrors

GatherReturns(results) ==
    \A e \in Endpoints : results[e] \in {"response"} \cup EndpointErrors

\* lines 142-143: the result, or None for an exception
EventResult(result) == IF result \in EndpointErrors THEN <<>> ELSE <<result>>

\* submit_bundle after its await, lines 125-150: it logs, counts, publishes
\* and falls off its end; except Exception covers the whole body
BundleSubmitted ==
    /\ sub.pc = "gather"
    /\ GatherReturns(sub.results)
    /\ bundles_submitted' = bundles_submitted + 1
    /\ bundle_events' = Append(bundle_events,
                               [flashbots_result |-> EventResult(sub.results["flashbots"]),
                                eden_result |-> EventResult(sub.results["eden"]),
                                target_block |-> sub.target_block[1]])
    /\ sub' = [sub EXCEPT !.pc = "returned", !.raised = FALSE, !.value = <<>>]
    /\ UNCHANGED <<busVars, gasVars, tiers, memVars, pipeVars, cls, gate, sizing, adaptVars,
                   lateVars>>

NextBundle ==
    \/ \E transactions \in TransactionLists, target_block \in TargetBlocks :
           SubmitBundle(transactions, target_block)
    \/ \E e \in Endpoints : EndpointStart(e)
    \/ \E e \in Endpoints, outcome \in RelayOutcomes : EndpointResolve(e, outcome)
    \/ BundleSubmitted

----------------------------------------------------------------------------
\* AdaptiveParameters (src/temp_extract/utils/adaptive_parameters.py)

\* the unit of the float parameters: the threshold is kept in units of
\* config.MIN_PROFIT_THRESHOLD / AdaptScale, a slippage and the slippage
\* tolerance in units of 1% / AdaptScale, a rate or ratio of 1.0 is AdaptScale
AdaptScale == 1200000

\* config.MIN_PROFIT_THRESHOLD, config.SLIPPAGE_TOLERANCE (0.2%)
MIN_PROFIT_THRESHOLD == AdaptScale
SLIPPAGE_TOLERANCE == AdaptScale \div 5

\* line 52: if current_time - self.last_update_time > 3600
UpdateInterval == 3600

\* line 147: max_history = 100, scaled down
max_history == 3

\* line 182: history[-20:], scaled down
RecentWindow == 2

\* the number of update_from_execution calls of a behaviour that append
MaxRecords == 4

\* the clock advances by AdaptTick seconds, MaxAdaptTicks times
AdaptTick == 1801
MaxAdaptTicks == 2

\* two of the four keys of self.execution_history (lines 28-33), in dict order
StrategyOrder == <<"DEX Arbitrage", "Flash Loan">>
StrategyKeys == Range(StrategyOrder)

\* opportunity.strategy: a key of the dict or another string
StrategyArgs == StrategyKeys \cup {"Sandwich"}

Exchanges == {"X", "Y"}

\* the fields of an execution record that are read (lines 135-142); slippage is
\* in hundredths of a percent, slippage and profit_realized may be None
ExecutionRecords ==
    { [slippage |-> <<0>>, success |-> TRUE, profit_expected |-> 10,
       profit_realized |-> <<100>>],
      [slippage |-> <<10000>>, success |-> FALSE, profit_expected |-> 10,
       profit_realized |-> <<0>>],
      [slippage |-> <<20>>, success |-> TRUE, profit_expected |-> 0,
       profit_realized |-> <<>>],
      [slippage |-> <<>>, success |-> TRUE, profit_expected |-> 10,
       profit_realized |-> <<10>>] }

NoPerformance ==
    [success_count |-> 0, failure_count |-> 0, total_slippage |-> 0, execution_count |-> 0]

NoAdaptiveCall ==
    [op |-> "none", strategy |-> "none", raised |-> FALSE, value |-> 0,
     recomputed |-> FALSE]

\* __init__, lines 16-46; an exchange that is not in exchange_performance has
\* the counters of lines 153-158
AdaptiveInit ==
    /\ min_profit_threshold = MIN_PROFIT_THRESHOLD
    /\ slippage_tolerance = SLIPPAGE_TOLERANCE
    /\ execution_history = [s \in StrategyKeys |-> <<>>]
    /\ exchange_performance = [e \in Exchanges |-> NoPerformance]
    /\ last_update_time = 0
    /\ atime = 0
    /\ acall = NoAdaptiveCall
    /\ arrivals = [s \in StrategyKeys |-> <<>>]
    /\ recomputes = <<>>

RECURSIVE SumSeq(_)
SumSeq(s) == IF s = <<>> THEN 0 ELSE Head(s) + SumSeq(Tail(s))

Mean(s) == SumSeq(s) \div Len(s)

\* the slice s[:n]
KeepFirst(s, n) == SubSeq(s, 1, Min(n, Len(s)))

\* the slice s[-n:]
KeepLast(s, n) == SubSeq(s, Max(1, Len(s) - n + 1), Len(s))

MapSeq(s, Op(_)) == [i \in 1..Len(s) |-> Op(s[i])]

HasSlippage(h) == h.slippage # <<>>
SlippageOf(h) == h.slippage[1] * (AdaptScale \div 100)
HasRealized(h) == h.profit_realized # <<>>
ProfitRatioOf(h) == IF h.profit_expected > 0
                        THEN (h.profit_realized[1] * AdaptScale) \div h.profit_expected
                        ELSE 0
IsSuccess(h) == h.success

\* lines 184-200, for the recent history of one strategy
Slippages(recent_history) == MapSeq(SelectSeq(recent_history, HasSlippage), SlippageOf)
SuccessRate(recent_history) ==
    (Len(SelectSeq(recent_history, IsSuccess)) * AdaptScale) \div Len(recent_history)
ProfitRatios(recent_history) ==
    MapSeq(SelectSeq(recent_history, HasRealized), ProfitRatioOf)

\* lines 177-200: the three lists over the strategies that have the data
RecentHistory(history, strategy) == KeepLast(history[strategy], RecentWindow)

AllSlippages(history) ==
    LET Has(strategy) == Slippages(RecentHistory(history, strategy)) # <<>>
        Avg(strategy) == Mean(Slippages(RecentHistory(history, strategy)))
    IN  MapSeq(SelectSeq(StrategyOrder, Has), Avg)

AllSuccessRates(history) ==
    LET Has(strategy) == history[strategy] # <<>>
        Rate(strategy) == SuccessRate(RecentHistory(history, strategy))
    IN  MapSeq(SelectSeq(StrategyOrder, Has), Rate)

AllProfitRatios(history) ==
    LET Has(strategy) == ProfitRatios(RecentHistory(history, strategy)) # <<>>
        Avg(strategy) == Mean(ProfitRatios(RecentHistory(history, strategy)))
    IN  MapSeq(SelectSeq(StrategyOrder, Has), Avg)

\* line 203: if all_slippages and all_success_rates and all_profit_ratios
HasData(history) ==
    /\ AllSlippages(history) # <<>>
    /\ AllSuccessRates(history) # <<>>
    /\ AllProfitRatios(history) # <<>>

\* lines 211-221: the weighted sum of the three factors
CombinedFactor(avg_slippage, avg_success_rate, avg_profit_ratio) ==
    LET slippage_factor == AdaptScale + avg_slippage \div 10
        success_factor == 2 * AdaptScale - avg_success_rate
        profit_factor == AdaptScale + (AdaptScale - avg_profit_ratio)
    IN  (3 * slippage_factor + 5 * success_factor + 2 * profit_factor) \div 10

Unbounded(new_threshold) == new_threshold

\* lines 227-230: max(base * 0.5, min(new_threshold, base * 3.0))
ThresholdBounds(new_threshold) ==
    Clamp(new_threshold, MIN_PROFIT_THRESHOLD \div 2, 3 * MIN_PROFIT_THRESHOLD)

\* lines 224-230, with base_threshold as the unit
NewThreshold(history) ==
    ThresholdBounds(CombinedFactor(Mean(AllSlippages(history)),
                                   Mean(AllSuccessRates(history)),
                                   Mean(AllProfitRatios(history))))

SameAsMean(avg_slippage) == avg_slippage

\* line 233: avg_slippage * 1.5
ToleranceFromSlippage(avg_slippage) == (avg_slippage * 3) \div 2

\* lines 233-238
NewTolerance(history) ==
    Clamp(ToleranceFromSlippage(Mean(AllSlippages(history))),
          SLIPPAGE_TOLERANCE \div 2, 3 * SLIPPAGE_TOLERANCE)

\* get_min_profit_threshold, lines 48-56, with _update_parameters, lines 171-241
GetMinProfitThreshold ==
    LET due == atime - last_update_time > UpdateInterval
        update == due /\ HasData(execution_history)
    IN  /\ min_profit_threshold' = IF update THEN NewThreshold(execution_history)
                                             ELSE min_profit_threshold
        /\ slippage_tolerance' = IF update THEN NewTolerance(execution_history)
                                           ELSE slippage_tolerance
        /\ last_update_time' = IF due THEN atime ELSE last_update_time
        /\ recomputes' = IF due THEN Append(recomputes, atime) ELSE recomputes
        /\ acall' = [op |-> "get_min_profit_threshold", strategy |-> "none",
                     raised |-> FALSE, value |-> min_profit_threshold',
                     recomputed |-> due]
        /\ UNCHANGED <<execution_history, exchange_performance, atime, arrivals>>
        /\ UNCHANGED <<busVars, gasVars, tiers, memVars, pipeVars, cls, gate, sizing,
                       bundleVars, lateVars>>

\* get_slippage_tolerance, lines 58-60
GetSlippageTolerance ==
    /\ acall' = [op |-> "get_slippage_tolerance", strategy |-> "none",
                 raised |-> FALSE, value |-> slippage_tolerance, recomputed |-> FALSE]
    /\ UNCHANGED <<min_profit_threshold, slippage_tolerance, execution_history,
                   exchange_performance, last_update_time, atime, arrivals, recomputes>>
    /\ UNCHANGED <<busVars, gasVars, tiers, memVars, pipeVars, cls, gate, sizing,
                   bundleVars, lateVars>>

\* lines 161-167: the counters of one exchange
CountExecution(perf, success) ==
    [perf EXCEPT !.execution_count = @ + 1,
                 !.success_count = IF success THEN @ + 1 ELSE @,
                 !.failure_count = IF success THEN @ ELSE @ + 1]

\* lines 151-169 for one exchange and a slippage that is a number
UpdateExchange(performance, exchange, record) ==
    [performance EXCEPT ![exchange] =
        [CountExecution(@, record.success) EXCEPT
            !.total_slippage = @ + record.slippage[1]]]

\* lines 151-169: the loop over [exchange_1, exchange_2]; with a slippage of
\* None line 169 raises TypeError in the first round, after the counters
PerformanceAfter(performance, exchange_1, exchange_2, record) ==
    IF record.slippage = <<>>
        THEN [performance EXCEPT ![exchange_1] = CountExecution(@, record.success)]
        ELSE UpdateExchange(UpdateExchange(performance, exchange_1, record),
                            exchange_2, record)

TotalRecords == SumSeq([i \in 1..Len(StrategyOrder) |-> Len(arrivals[StrategyOrder[i]])])

\* update_from_execution, lines 128-169; a strategy that is no key of
\* execution_history raises KeyError at line 144
UpdateFromExecution(strategy, record, exchange_1, exchange_2) ==
    /\ TotalRecords < MaxRecords
    /\ IF strategy \notin StrategyKeys
           THEN /\ acall' = [op |-> "update_from_execution", strategy |-> strategy,
                             raised |-> TRUE, value |-> 0, recomputed |-> FALSE]
                /\ UNCHANGED <<execution_history, exchange_performance, arrivals>>
           ELSE /\ execution_history' =
                       [execution_history EXCEPT ![strategy] =
                           KeepLast(Append(@, record), max_history)]
                /\ arrivals' = [arrivals EXCEPT ![strategy] = Append(@, record)]
                /\ exchange_performance' =
                       PerformanceAfter(exchange_performance, exchange_1, exchange_2, record)
                /\ acall' = [op |-> "update_from_execution", strategy |-> strategy,
                             raised |-> record.slippage = <<>>, value |-> 0,
                             recomputed |-> FALSE]
    /\ UNCHANGED <<min_profit_threshold, slippage_tolerance, last_update_time, atime,
                   recomputes>>
    /\ UNCHANGED <<busVars, gasVars, tiers, memVars, pipeVars, cls, gate, sizing,
                   bundleVars, lateVars>>

\* time passes
AdaptiveTick ==
    /\ atime < MaxAdaptTicks * AdaptTick
    /\ atime' = atime + AdaptTick
    /\ UNCHANGED <<min_profit_threshold, slippage_tolerance, execution_history,
                   exchange_performance, last_update_time, acall, arrivals, recomputes>>
    /\ UNCHANGED <<busVars, gasVars, tiers, memVars, pipeVars, cls, gate, sizing,
                   bundleVars, lateVars>>

NextAdaptive ==
    \/ GetMinProfitThreshold
    \/ GetSlippageTolerance
    \/ \E strategy \in StrategyArgs, record \in ExecutionRecords :
           UpdateFromExecution(strategy, record, "X", "Y")
    \/ AdaptiveTick

----------------------------------------------------------------------------
\* MempoolMonitor: the lifecycle of its tasks (src/mev/mempool.py lines
\* 95-136).  The loops are reduced to what start() and stop() see of them: a
\* task is "ready" (created, not yet run), "waiting" (inside its while
\* self.running loop, suspended at an await) or "done".

TaskKinds == <<"connect", "process", "metrics">>

\* bound on the number of start() calls of a run
MaxStartCalls == 3

LifeInit == life = [running |-> FALSE, tasks |-> <<>>, calls |-> 0]

NewTasks == [i \in 1..Len(TaskKinds) |-> [kind |-> TaskKinds[i], pc |-> "ready"]]

\* start, lines 97-99: if self.running: return
StartReturnsAtOnce(is_running) == is_running

\* start, lines 95-113: three tasks are created and appended to self.tasks
LifeStart ==
    /\ life.calls < MaxStartCalls
    /\ life' = IF StartReturnsAtOnce(life.running)
                   THEN [life EXCEPT !.calls = @ + 1]
                   ELSE [life EXCEPT !.calls = @ + 1,
                                     !.running = TRUE,
                                     !.tasks = @ \o NewTasks]
    /\ UNCHANGED <<busVars, gasVars, tiers, memVars, pipeVars, cls, gate, sizing,
                   bundleVars, adaptVars, cost, sel, fl, opps>>

\* stop, lines 115-136: returns at once when not running; otherwise every task
\* of self.tasks is cancelled and awaited (the list is never cleared: tasks of
\* earlier runs are cancelled again, which does nothing to a finished task)
LifeStop ==
    /\ life.running
    /\ life' = [life EXCEPT
                   !.running = FALSE,
                   !.tasks = [i \in 1..Len(@) |-> [@[i] EXCEPT !.pc = "done"]]]
    /\ UNCHANGED <<busVars, gasVars, tiers, memVars, pipeVars, cls, gate, sizing,
                   bundleVars, adaptVars, cost, sel, fl, opps>>

\* lines 144, 238 and 359: a task is resumed and comes to the test of its
\* while self.running loop; it goes round once more or ends
LoopRound(i) ==
    /\ life.tasks[i].pc \in {"ready", "waiting"}
    /\ life' = [life EXCEPT
                   !.tasks[i].pc = IF life.running THEN "waiting" ELSE "done"]
    /\ UNCHANGED <<busVars, gasVars, tiers, memVars, pipeVars, cls, gate, sizing,
                   bundleVars, adaptVars, cost, sel, fl, opps>>

\* _connect_and_subscribe, lines 191-195: the retries are exhausted, the loop
\* sets self.running = False and breaks; the other tasks are not cancelled
RetriesExhausted(i) ==
    /\ life.tasks[i].kind = "connect"
    /\ life.tasks[i].pc = "waiting"
    /\ life' = [life EXCEPT !.running = FALSE, !.tasks[i].pc = "done"]
    /\ UNCHANGED <<busVars, gasVars, tiers, memVars, pipeVars, cls, gate, sizing,
                   bundleVars, adaptVars, cost, sel, fl, opps>>

NextLife ==
    \/ LifeStart
    \/ LifeStop
    \/ \E i \in 1..Len(life.tasks) : LoopRound(i)
    \/ \E i \in 1..Len(life.tasks) : RetriesExhausted(i)

----------------------------------------------------------------------------
\* estimate_transaction_cost and is_transaction_profitable, in both copies of
\* gas_price.py.  Costs and profits are in one unit (the price unit of the
\* oracle times one unit of gas).

GasEstimates == Opt({0, 1, 2})            \* w3.eth.estimate_gas: <<>> when it raises
GasPriceParams == Opt({0, 100})           \* tx_params['gasPrice']: <<>> when the key is absent
ProfitValues == {-5, 0, 1, 120, 121, 240, 241}

\* what get_optimal_gas_price(w3) yields: <<>> when it raises, which only the
\* copy under utils can do, as only that copy can return 0
OracleOutcomes(which) ==
    IF which = "temp_extract" THEN {<<MinGasPrice>>, <<StandardGasPrice>>}
    ELSE Opt({0, MinGasPrice})

\* w3.from_wei(cost_wei, 'ether'): the int 0 for 0, a decimal.Decimal otherwise
from_wei(cost_wei) ==
    [kind |-> IF cost_wei = 0 THEN "int" ELSE "Decimal", value |-> cost_wei]

CostFloat(x) == [kind |-> "float", value |-> x]

\* temp_extract lines 103-134
EstimateCostTE(gas_estimate, gasPrice, oracle) ==
    IF gas_estimate = <<>> THEN CostFloat(0)
    ELSE LET gas_price == IF gasPrice = <<>> \/ gasPrice[1] = 0
                              THEN oracle[1] ELSE gasPrice[1]
         IN  from_wei(gas_estimate[1] * gas_price)

\* utils lines 97-124: the default of dict.get is evaluated before the lookup,
\* so the oracle is awaited even when the key is present; float(cost_eth)
EstimateCostU(gas_estimate, gasPrice, oracle) ==
    IF gas_estimate = <<>> \/ oracle = <<>> THEN CostFloat(0)
    ELSE LET gas_price == IF gasPrice = <<>> THEN oracle[1] ELSE gasPrice[1]
         IN  CostFloat(gas_estimate[1] * gas_price)

estimate_transaction_cost(which, gas_estimate, gasPrice, oracle) ==
    IF which = "temp_extract" THEN EstimateCostTE(gas_estimate, gasPrice, oracle)
    ELSE EstimateCostU(gas_estimate, gasPrice, oracle)

\* cost_eth * 1.2 (temp_extract line 152, utils line 142): a Decimal times a
\* float raises TypeError
MarginRaises(cost_eth) == cost_eth.kind = "Decimal"

CostInit ==
    cost = [done |-> FALSE, which |-> "temp_extract", gas_estimate |-> <<>>,
            gasPrice |-> <<>>, oracle |-> <<>>, expected_profit |-> 0,
            estimate |-> CostFloat(0), raised |-> FALSE, profitable |-> FALSE]

\* is_transaction_profitable(w3, tx_params, expected_profit_eth), temp_extract
\* lines 136-162 and utils lines 126-161
IsTransactionProfitable(which, gas_estimate, gasPrice, oracle, expected_profit) ==
    LET cost_eth == estimate_transaction_cost(which, gas_estimate, gasPrice, oracle)
    IN  /\ ~cost.done
        /\ cost' = [done |-> TRUE, which |-> which, gas_estimate |-> gas_estimate,
                    gasPrice |-> gasPrice, oracle |-> oracle,
                    expected_profit |-> expected_profit,
                    estimate |-> cost_eth,
                    raised |-> MarginRaises(cost_eth),
                    profitable |-> IF MarginRaises(cost_eth) THEN FALSE
                                   ELSE is_transaction_profitable(expected_profit,
                                                                  cost_eth.value)]
        /\ UNCHANGED <<busVars, gasVars, tiers, memVars, pipeVars, cls, gate, sizing,
                       bundleVars, adaptVars, life, sel, fl, opps>>

NextCost ==
    \E which \in Impls, gas_estimate \in GasEstimates, gasPrice \in GasPriceParams,
       expected_profit \in ProfitValues :
        \E oracle \in OracleOutcomes(which) :
            IsTransactionProfitable(which, gas_estimate, gasPrice, oracle, expected_profit)

----------------------------------------------------------------------------
\* Bot404._ai_strategy_selection (src/core/bot.py lines 276-300).  A strategy
\* object is named by its key in self.strategies: the map holds one object
\* per key and the classes define no __eq__, so objects differ iff keys do.

StrategyMap == {"flash_loan", "dex_arbitrage", "zk_mev"}

\* what get_best_strategy(self.ai_selector_config) can hand back: it raises
\* (<<>>), or returns None, an empty name, a key of the map or another name
BestStrategyOutcomes == {<<>>} \cup {<<n>> : n \in StrategyMap \cup {"None", "", "unknown"}}

\* bound on the rounds of the loop in one run
MaxRounds == 4

NoRound == [best |-> <<>>, before |-> <<>>, published |-> FALSE]

\* lines 165-166: self.active_strategy = None
SelectionInit == sel = [active_strategy |-> <<>>, events |-> <<>>, rounds |-> 0,
                        last |-> NoRound]

\* line 283: if best_strategy_name and best_strategy_name in self.strategies
KnownStrategy(best) == best # <<>> /\ best[1] \notin {"None", ""} /\ best[1] \in StrategyMap

AlwaysDiffers(active_strategy, best_strategy_name) == TRUE

\* line 284: if self.active_strategy != self.strategies[best_strategy_name]
StrategyDiffers(active_strategy, best_strategy_name) ==
    active_strategy # <<best_strategy_name>>

\* lines 279-300: one round of the loop, up to its sleep; an exception of
\* get_best_strategy is logged by the except branch and changes nothing
SelectionRound(best) ==
    /\ sel.rounds < MaxRounds
    /\ LET change == KnownStrategy(best) /\ StrategyDiffers(sel.active_strategy, best[1])
       IN  sel' = [active_strategy |-> IF change THEN best ELSE sel.active_strategy,
                   events |-> IF change THEN Append(sel.events, best[1]) ELSE sel.events,
                   rounds |-> sel.rounds + 1,
                   last |-> [best |-> best, before |-> sel.active_strategy,
                             published |-> change]]
    /\ UNCHANGED <<busVars, gasVars, tiers, memVars, pipeVars, cls, gate, sizing,
                   bundleVars, adaptVars, life, cost, fl, opps>>

NextSelection == \E best \in BestStrategyOutcomes : SelectionRound(best)

----------------------------------------------------------------------------
\* AdvancedFlashLoanStrategy (src/strategies/advanced_flash_loan.py): the
\* execution of one opportunity and the loop that executes the pending ones.
\* Expected profits are in thousandths of an ETH.

\* what an awaited step hands back: a value, None, or it raises ("status0" is
\* a receipt whose status is not 1)
StepOutcomes == {"ok", "none", "raise"}
ReceiptOutcomes == {"ok", "none", "status0", "raise"}
\* self.performance.record_profit(actual_profit) returns or raises: the
\* PerformanceTracker of src/utils/performance.py has no record_profit
\* (AttributeError); _calculate_actual_profit (lines 568-580) returns 0.0
CallOutcomes == {"ok", "raise"}

FlashLoanInit ==
    fl = [done |-> FALSE, provider |-> "none", tx |-> "none", tx_hash |-> "none",
          receipt |-> "none", record_profit |-> "ok",
          result |-> FALSE, raised |-> FALSE, recorded |-> 0]

\* lines 404-424: every step has handed back what the next one needs
StepsSucceeded(provider, tx, tx_hash, receipt) ==
    provider = "ok" /\ tx = "ok" /\ tx_hash = "ok" /\ receipt = "ok"

\* lines 426-440: the profit is computed and recorded, then True is returned;
\* an exception of record_profit is caught by the except branch: False
FlashLoanResult(provider, tx, tx_hash, receipt, record_profit) ==
    /\ StepsSucceeded(provider, tx, tx_hash, receipt)
    /\ record_profit = "ok"

\* _execute_flash_loan, lines 381-440
ExecuteFlashLoan(provider, tx, tx_hash, receipt, record_profit) ==
    /\ ~fl.done
    /\ fl' = [done |-> TRUE, provider |-> provider, tx |-> tx, tx_hash |-> tx_hash,
              receipt |-> receipt, record_profit |-> record_profit,
              result |-> FlashLoanResult(provider, tx, tx_hash, receipt, record_profit),
              raised |-> FALSE,
              recorded |-> IF FlashLoanResult(provider, tx, tx_hash, receipt,
                                              record_profit)
                               THEN 1 ELSE 0]
    /\ UNCHANGED <<busVars, gasVars, tiers, memVars, pipeVars, cls, gate, sizing,
                   bundleVars, adaptVars, life, cost, sel, opps>>

NextFlashLoan ==
    \E provider \in StepOutcomes, tx \in StepOutcomes, tx_hash \in StepOutcomes,
       receipt \in ReceiptOutcomes, record_profit \in CallOutcomes :
        ExecuteFlashLoan(provider, tx, tx_hash, receipt, record_profit)

\* the opportunities the monitors can find
Opportunities ==
    {[id |-> "a", expected_profit |-> 10, requires_capital |-> TRUE],
     [id |-> "b", expected_profit |-> 8, requires_capital |-> FALSE],
     [id |-> "c", expected_profit |-> 8, requires_capital |-> TRUE],
     [id |-> "d", expected_profit |-> 5, requires_capital |-> FALSE]}

\* bounds: the opportunities pending at once and the rounds of the loop
MaxPending == 3
MaxExecRounds == 2

PendingLists ==
    {s \in UNION {[1..n -> Opportunities] : n \in 1..MaxPending} :
        \A i, j \in 1..Len(s) : i # j => s[i] # s[j]}

ExecutorInit ==
    opps = [ZERO_CAPITAL_MODE |-> FALSE, pending_opportunities |-> <<>>,
            executed_flash_loans |-> <<>>, pc |-> "new", snapshot |-> <<>>,
            pos |-> 0, order |-> <<>>, rounds |-> 0]

\* list.sort(key=..., reverse=True): descending and stable, equal keys keep
\* their order
RECURSIVE InsertByProfit(_, _)
InsertByProfit(sorted, o) ==
    IF sorted = <<>> THEN <<o>>
    ELSE IF sorted[Len(sorted)].expected_profit >= o.expected_profit
        THEN Append(sorted, o)
        ELSE Append(InsertByProfit(SubSeq(sorted, 1, Len(sorted) - 1), o),
                    sorted[Len(sorted)])

RECURSIVE SortByProfit(_)
SortByProfit(list) ==
    IF list = <<>> THEN <<>>
    ELSE InsertByProfit(SortByProfit(SubSeq(list, 1, Len(list) - 1)), list[Len(list)])

\* the configuration and the opportunities appended by _monitor_opportunities
\* (line 192) before the execution loop runs
FindOpportunities(mode, list) ==
    /\ opps.pc = "new"
    /\ opps' = [opps EXCEPT !.ZERO_CAPITAL_MODE = mode,
                            !.pending_opportunities = list,
                            !.pc = "idle"]
    /\ UNCHANGED <<busVars, gasVars, tiers, memVars, pipeVars, cls, gate, sizing,
                   bundleVars, adaptVars, life, cost, sel, fl>>

\* _execute_opportunities, lines 356-360: the list is sorted in place and the
\* for loop runs over a copy of it
RoundStart ==
    /\ opps.pc = "idle"
    /\ opps.rounds < MaxExecRounds
    /\ opps' = [opps EXCEPT
                   !.pending_opportunities = SortByProfit(@),
                   !.snapshot = SortByProfit(opps.pending_opportunities),
                   !.pos = 1, !.order = <<>>, !.pc = "executing"]
    /\ UNCHANGED <<busVars, gasVars, tiers, memVars, pipeVars, cls, gate, sizing,
                   bundleVars, adaptVars, life, cost, sel, fl>>

\* lines 360-373: the await of _execute_flash_loan for the next opportunity of
\* the copy returns; on success the opportunity leaves the pending list
ExecuteNext(success) ==
    /\ opps.pc = "executing"
    /\ opps.pos <= Len(opps.snapshot)
    /\ LET opportunity == opps.snapshot[opps.pos]
       IN  opps' = [opps EXCEPT
                       !.order = Append(@, opportunity),
                       !.pos = @ + 1,
                       !.pending_opportunities =
                           IF success THEN SelectSeq(@, LAMBDA o : o # opportunity)
                           ELSE @,
                       !.executed_flash_loans =
                           IF success THEN Append(@, opportunity) ELSE @]
    /\ UNCHANGED <<busVars, gasVars, tiers, memVars, pipeVars, cls, gate, sizing,
                   bundleVars, adaptVars, life, cost, sel, fl>>

\* lines 375-376: the for loop is exhausted; asyncio.sleep(1)
RoundEnd ==
    /\ opps.pc = "executing"
    /\ opps.pos > Len(opps.snapshot)
    /\ opps' = [opps EXCEPT !.pc = "idle", !.rounds = @ + 1]
    /\ UNCHANGED <<busVars, gasVars, tiers, memVars, pipeVars, cls, gate, sizing,
                   bundleVars, adaptVars, life, cost, sel, fl>>

NextExecutor ==
    \/ \E mode \in BOOLEAN, list \in PendingLists : FindOpportunities(mode, list)
    \/ RoundStart
    \/ \E success \in BOOLEAN : ExecuteNext(success)
    \/ RoundEnd

----------------------------------------------------------------------------
\* The specifications, one per component

LateParked == LifeInit /\ CostInit /\ SelectionInit /\ FlashLoanInit /\ ExecutorInit

ExtParked == SizingParked /\ BundleInit /\ AdaptiveInit /\ LateParked

Parked == GasParked /\ TiersParked /\ ClassifyParked /\ GateParked /\ ExtParked

InitBus == BusInit /\ GasParked /\ TiersParked /\ MempoolInit /\ PipelineInit
           /\ ClassifyParked /\ GateParked /\ ExtParked

SpecBus == InitBus /\ [][NextBus]_vars

InitGas == BusInit /\ GasInit /\ TiersParked /\ MempoolInit /\ PipelineInit
           /\ ClassifyParked /\ GateParked /\ ExtParked

SpecGas == InitGas /\ [][NextGas]_vars

InitTiers == BusInit /\ GasParked /\ TiersInit /\ MempoolInit /\ PipelineInit
             /\ ClassifyParked /\ GateParked /\ ExtParked

SpecTiers == InitTiers /\ [][NextTiers]_vars

InitMempool == BusInit /\ Parked /\ MempoolInit /\ PipelineInit

SpecMempool == InitMempool /\ [][NextMempool]_vars

\* the event loop resumes a task whose await has resolved, and start is called
SpecFailingFeed == InitMempool /\ [][NextFailingFeed]_vars /\ WF_vars(NextFailingFeed)

SpecPipeline == InitMempool /\ [][NextPipeline]_vars

SpecShutdown == InitMempool /\ [][NextShutdown]_vars

InitClassify == BusInit /\ GasParked /\ TiersParked /\ MempoolInit /\ PipelineInit
                /\ ClassifyInit /\ GateParked /\ ExtParked

SpecClassify == InitClassify /\ [][NextClassify]_vars

InitGate == BusInit /\ GasParked /\ TiersParked /\ MempoolInit /\ PipelineInit
            /\ ClassifyParked /\ GateInit /\ ExtParked

SpecGate == InitGate /\ [][NextGate]_vars

InitSizing == BusInit /\ GasParked /\ TiersParked /\ MempoolInit /\ PipelineInit
              /\ ClassifyParked /\ GateParked /\ SizingInit /\ BundleInit
              /\ AdaptiveInit /\ LateParked

SpecSizing == InitSizing /\ [][NextSizing]_vars

InitBundle == BusInit /\ Parked /\ MempoolInit /\ PipelineInit

SpecBundle == InitBundle /\ [][NextBundle]_vars

InitAdaptive == BusInit /\ Parked /\ MempoolInit /\ PipelineInit

SpecAdaptive == InitAdaptive /\ [][NextAdaptive]_vars

SpecLife == InitBundle /\ [][NextLife]_vars

SpecCost == InitBundle /\ [][NextCost]_vars

SpecSelection == InitBundle /\ [][NextSelection]_vars

SpecReentrant == InitBus /\ [][NextReentrant]_vars

SpecFlashLoan == InitBundle /\ [][NextFlashLoan]_vars

SpecExecutor == InitBundle /\ [][NextExecutor]_vars

----------------------------------------------------------------------------
\* Claims about the EventBus

SyncReturned == dispatch.kind = "sync" /\ dispatch.status = "returned"

\* C1: a handler subscribed two or more times to a topic, with no unsubscribe
\* in between, is invoked exactly once by each publish on that topic.
C1_SubscribeIdempotent ==
    SyncReturned =>
        \A h \in Handlers :
            subCount[dispatch.topic][h] >= 2 => Count(dispatch.calls, h) = 1

C1_Witness ==
    /\ SyncReturned
    /\ \E h \in Handlers :
           subCount[dispatch.topic][h] >= 2 /\ Count(dispatch.calls, h) = 1
    /\ Len(dispatch.calls) >= 2

\* C2: publish isolates handler failures: whichever handlers raise, every
\* handler registered for the topic is invoked and publish returns normally.
C2_PublishIsolatesFailures ==
    SyncReturned =>
        /\ ~dispatch.propagated
        /\ \A i \in 1..Len(regOrder[dispatch.topic]) :
               \E k \in 1..Len(dispatch.calls) :
                   dispatch.calls[k] = regOrder[dispatch.topic][i]

C2_Witness ==
    /\ SyncReturned
    /\ ~dispatch.propagated
    /\ \E h, g \in Handlers :
           /\ h \in dispatch.raisedBy
           /\ g \in Range(dispatch.calls) \ dispatch.raisedBy
           /\ IndexOf(dispatch.calls, h) < IndexOf(dispatch.calls, g)

\* C3: publish invokes the handlers one after the other in the order of their
\* first registration, and all of them before it returns.
C3_RegistrationOrder ==
    /\ SyncReturned =>
           LET order == regOrder[dispatch.topic]
           IN  \A i, j \in 1..Len(order) :
                   i < j =>
                       \E k, l \in 1..Len(dispatch.calls) :
                           /\ k < l
                           /\ dispatch.calls[k] = order[i]
                           /\ dispatch.calls[l] = order[j]
    /\ dispatch.kind = "sync" =>
           \* invocation k begins only when the k-1 before it have completed
           /\ Len(dispatch.calls) = dispatch.idx - 1
           /\ \A k \in 1..Len(dispatch.calls) :
                  dispatch.calls[k] = subscribers[dispatch.topic][k]

C3_Witness ==
    \* h1, h2 subscribed, h1 unsubscribed and subscribed again: h2 is now first
    /\ SyncReturned
    /\ busClock = 4
    /\ regOrder[dispatch.topic] = <<"h2", "h1">>
    /\ dispatch.calls = <<"h2", "h1">>

\* C4: publish_async creates the tasks of all asynchronous handlers of the
\* topic before it suspends, returns only when every one of them has finished
\* (normally or with an exception), and propagates no handler's exception.
C4_PublishAsyncWaitsAll ==
    /\ dispatch.kind = "async" =>
           /\ \A h \in AsyncHandlers :
                  h \in Range(dispatch.snapshot) <=> dispatch.tasks[h] # "none"
           /\ ~dispatch.propagated
    /\ dispatch.kind = "async" /\ dispatch.status = "returned" =>
           \A h \in AsyncHandlers :
               h \in Range(dispatch.snapshot) => dispatch.tasks[h] \in {"ok", "exc"}

C4_Witness ==
    /\ dispatch.kind = "async" /\ dispatch.status = "returned"
    /\ dispatch.tasks["a1"] = "exc" /\ dispatch.tasks["a2"] = "ok"
    /\ dispatch.raisedBy # {}

----------------------------------------------------------------------------
\* Claims about the gas price oracle

Called == gout.path # "none"

\* C5: every request made while a cached estimate is within its TTL returns
\* exactly the cached value, with no recomputation and no call to the fee source.
C5_CachedWithinTTL ==
    Called /\ gout.withinTTL =>
        /\ gout.path = "cached"
        /\ gout.value = gout.cached
        /\ ~gout.queried

\* C5, for the copy that floors its estimates at 1 Gwei, where no cached
\* price is zero
C5_CachedWithinTTL_TempExtract == impl = "temp_extract" => C5_CachedWithinTTL

\* C6: a cached value is returned only for the tier it was computed for.
C6_CachePerTier ==
    gout.path = "cached" => gout.strategy = gout.cachedFor

\* C7: the oracle never raises; on any failure of the fee source (current
\* fee, block number or block fetch) it returns the fallback constant.
C7_NeverRaisesFallback ==
    Called =>
        /\ gout.path # "raised"
        /\ gout.failure # "none" => gout.value = StandardGasPrice

\* C7, the part about raising alone, for the copy under temp_extract
C7_NeverRaises_TempExtract == impl = "temp_extract" => gout.path # "raised"

\* C8: computed fresh from the same window of at least 10 samples and the same
\* network fee, the fast estimate is >= the balanced one >= the economic one.
C8_TierOrdering ==
    tiers.out # <<>> /\ Total(tiers.counts) >= MinSamples =>
        /\ tiers.out["fast"] >= tiers.out["balanced"]
        /\ tiers.out["balanced"] >= tiers.out["economic"]

C8_Witness ==
    /\ tiers.out # <<>> /\ Total(tiers.counts) >= MinSamples
    /\ tiers.which = "utils"
    /\ tiers.out["fast"] > tiers.out["balanced"]
    /\ tiers.out["balanced"] > tiers.out["economic"]
    /\ tiers.out["economic"] > tiers.gas_price

\* C9: every value the oracle returns, on every path, is at least the
\* minimum fee of 1 Gwei.
C9_Floor ==
    Called /\ gout.path # "raised" => gout.value >= MinGasPrice

\* C9 for the copy under temp_extract
C9_Floor_TempExtract == impl = "temp_extract" => C9_Floor

----------------------------------------------------------------------------
\* Claims about the MempoolMonitor

\* min(base * 2^e, cap); beyond e = 20 the power is far above the cap
Backoff(e) == IF e > 20 THEN MaxDelay ELSE Min(BaseDelay * 2^e, MaxDelay)

C11_CountedFailuresGiveUp ==
    /\ retry_count <= max_retries + 1
    /\ running /\ streak.fresh /\ streak.counted => streak.n <= max_retries
    /\ retry_count > max_retries => ~running

\* C11: under a feed that fails every connection attempt, whatever the kind
\* of failure, the monitor eventually gives up: running becomes false.
C11_EventuallyGivesUp == running ~> ~running

\* C12: when the retries are exhausted and the monitor has stopped, an error
\* event has been published on the event bus.
C12_ExhaustionPublishesError ==
    ~running /\ retry_count > max_retries => "error" \in published

\* the connection is lost while streaming and the monitor is not being stopped
StreamLost(kinds) ==
    /\ mpc = "streaming" /\ mpc' # "streaming"
    /\ running
    /\ streak'.last \in kinds

\* C13: a connection dropped while streaming increments the retry counter and
\* the backoff delay is waited before the next attempt (no immediate reconnect).
C13_DropCountsAndWaits ==
    [][StreamLost({"recv_closed", "ping_closed"}) =>
           /\ retry_count' = retry_count + 1
           /\ mpc' = "sleep"
           /\ wait'.seconds = retry_delay]_vars

\* C14: a failed or timed-out ping makes exactly the transition of a dropped
\* connection: same next state, same retry counter, same wait.
C14_PingFailureLikeDrop ==
    [][StreamLost({"ping_closed", "ping_timeout"}) => ReconnectAtOnce]_vars

----------------------------------------------------------------------------
\* Claims about the classification batches

BatchCompletes == ppc = "gather" /\ ppc' = "loop"

\* C16: when the dedup set exceeds its cap the entries removed are the oldest:
\* every hash kept was processed later than every hash evicted, and the size
\* after the eviction is at most the cap.
C16_EvictsOldest ==
    [][BatchCompletes /\ Cardinality(processed_txs \cup Range(tx_hashes)) > DedupCap =>
           LET all == procOrder \o tx_hashes
           IN  /\ \A i, j \in 1..Len(all) :
                      i < j /\ all[i] \in processed_txs' => all[j] \in processed_txs'
               /\ Cardinality(processed_txs') <= DedupCap]_vars

\* C17: a classification round takes at most the batch size of pending
\* hashes, all fetched concurrently, and they are the oldest pending ones.
C17_BoundedBatch ==
    /\ Len(tx_hashes) <= BatchSize
    /\ ppc = "gather" =>
           /\ tx_hashes # <<>>
           /\ \A h \in Hashes : h \in Range(tx_hashes) <=> fetch[h] # "none"
           /\ \A b \in Range(tx_hashes) :
                  /\ b \in Range(pending_txs)
                  /\ \A p \in Range(pending_txs) \ Range(tx_hashes) :
                         hist[b].seenAt < hist[p].seenAt
    /\ ppc # "gather" => tx_hashes = <<>>

C17_Witness ==
    /\ ppc = "gather"
    /\ Len(tx_hashes) = BatchSize
    /\ Len(pending_txs) > BatchSize
    /\ \A h \in Range(tx_hashes) : fetch[h] = "pending"

\* C19: after a batch completes every hash of it has left the pending queue
\* and is in the dedup set; an unfetchable transaction is never fetched again.
C19_BatchMovesToDedup ==
    [][/\ BatchCompletes =>
              \A h \in Range(tx_hashes) :
                  h \notin Range(pending_txs') /\ h \in processed_txs'
       /\ \A h \in Hashes :
              hist[h].unfetchable => ~(fetch[h] = "none" /\ fetch'[h] = "pending")]_vars

----------------------------------------------------------------------------
\* Claims about the classification decision

\* the call data is "0x" followed by at least one byte
NonEmptyCallData(input) == input.kind = "hex" /\ Len(input.bytes) >= 1

\* the recipient has a handler registered for the first four bytes
HandlerRegistered(input, to, methods) ==
    /\ Len(input.bytes) >= 4
    /\ <<to, <<input.bytes[1], input.bytes[2], input.bytes[3], input.bytes[4]>> >>
           \in methods

\* C18: a transaction is interesting iff its call data is non-empty and its
\* recipient is watched, or has a handler registered for the selector of the
\* call data that returns true; never with empty call data; a handler that
\* raises yields not interesting.
C18_ClassificationDecision ==
    cls.out # "none" =>
        /\ cls.out = "True" <=>
               /\ NonEmptyCallData(cls.input)
               /\ \/ cls.to \in cls.addresses
                  \/ /\ HandlerRegistered(cls.input, cls.to, cls.methods)
                     /\ cls.callback = "True"
        /\ ~NonEmptyCallData(cls.input) => cls.out = "False"
        /\ cls.callback = "raise" /\ cls.to \notin cls.addresses => cls.out = "False"

C18_Witness ==
    /\ cls.out = "True"
    /\ cls.to \notin cls.addresses
    /\ HandlerRegistered(cls.input, cls.to, cls.methods)
    /\ Len(cls.input.bytes) = 5

----------------------------------------------------------------------------
\* Claims about the profitability gates

\* gross - fee_cost * 1.2 - loan_premium_cost > threshold, in tenths
NetWithMarginAboveThreshold(gross, fee, loan, threshold) ==
    gross * 10 - fee * 12 - loan * 10 > threshold * 10

\* C20: an opportunity is accepted iff gross - fee_cost * margin -
\* loan_premium_cost > the minimum-profit threshold, margin 1.2.
C20_ProfitabilityGate ==
    gate.done =>
        /\ gate.transaction =
               NetWithMarginAboveThreshold(gate.gross, gate.fee, gate.loan, gate.threshold)
        /\ gate.flash_loan =
               NetWithMarginAboveThreshold(gate.gross, gate.fee, gate.loan, gate.threshold)

----------------------------------------------------------------------------
\* Order sizing

\* C21: for every spread, every capital and every venue performance history,
\* the size returned by calculate_position_size and by
\* calculate_optimal_trade_size is at most 95% of the capital (max_size,
\* available_capital) and, when a trade is made, at least the minimum viable
\* size (1% of max_size, 5% of available_capital).
C21_SizeWithinBounds ==
    sizing.done =>
        /\ sizing.position_2 <= ShareOfMaxSize(95)
        /\ sizing.position_2 >= ShareOfMaxSize(1)
        /\ sizing.optimal_2 <= 9500
        /\ (sizing.optimal_2 > 0 => sizing.optimal_2 >= 500)

\* C22: with capital, risk tolerance, slippage model and venue history held
\* fixed, a larger spread never yields a smaller size, for both sizing
\* functions.
C22_MonotoneInSpread ==
    sizing.done =>
        /\ sizing.position_1 <= sizing.position_2
        /\ sizing.optimal_1 <= sizing.optimal_2

----------------------------------------------------------------------------
\* Bundle submission

\* the submit_bundle call that returned had transactions and a target block
IssuedAndReturned == sub.pc = "returned" /\ sub.results["flashbots"] # "none"

\* C23: for every combination of per-endpoint outcomes, submit_bundle does
\* not raise and returns an aggregate with one outcome per relay: the
\* response of each relay that succeeded and an error for each that failed.
C23_ReturnsAggregate ==
    IssuedAndReturned =>
        /\ ~sub.raised
        /\ sub.value = <<sub.results>>

\* C24: the submissions of one submit_bundle are issued together, an error of
\* one relay neither cancels nor skips the other, and bundles_submitted is
\* incremented once and one bundle_submitted event (each relay's response, or
\* None for a relay that failed, and the target block) is published, only
\* after both relays have resolved, also when both failed.
C24_CountedOnceAfterAll ==
    [][ /\ (sub.pc # "gather" /\ sub'.pc = "gather")
            => \A e \in Endpoints : sub'.results[e] = "unstarted"
        /\ \A e \in Endpoints :
               (sub.pc = "gather" /\ sub.results[e] \in {"response"} \cup EndpointErrors)
                   => sub'.results[e] = sub.results[e]
        /\ (bundles_submitted' # bundles_submitted \/ bundle_events' # bundle_events)
            => /\ \A e \in Endpoints : sub.results[e] \in {"response"} \cup EndpointErrors
               /\ bundles_submitted' = bundles_submitted + 1
               /\ bundle_events' =
                      Append(bundle_events,
                             [flashbots_result |->
                                  IF sub.results["flashbots"] = "response"
                                      THEN <<"response">> ELSE <<>>,
                              eden_result |->
                                  IF sub.results["eden"] = "response"
                                      THEN <<"response">> ELSE <<>>,
                              target_block |-> sub.target_block[1]])
        /\ bundles_submitted' = sub'.issued - (IF sub'.pc = "gather" THEN 1 ELSE 0)
        /\ Len(bundle_events') = bundles_submitted'
      ]_vars

C24_Witness ==
    /\ IssuedAndReturned
    /\ sub.issued = 2
    /\ \A e \in Endpoints : sub.results[e] \in {"status", "timeout"}
    /\ bundles_submitted = 2
    /\ Len(bundle_events) = 2
    /\ bundle_events[1].flashbots_result = <<"response">>
    /\ bundle_events[1].eden_result = <<>>
    /\ bundle_events[2].flashbots_result = <<>>
    /\ bundle_events[2].eden_result = <<>>

\* C25: submit_bundle raises exactly when the request cannot be built: with a
\* transaction list holding an element of unsupported format it raises to the
\* caller, with a well-formed list it never raises whatever the relays do.
C25_RaisesIffMalformed ==
    IssuedAndReturned => (sub.raised <=> sub.transactions = "malformed")

----------------------------------------------------------------------------
\* Adaptive parameters

\* the step is a recompute: _update_parameters ran
Recomputed == recomputes' # recomputes

\* the time of the last recompute, the construction before the first
LastRecompute == IF recomputes = <<>> THEN 0 ELSE recomputes[Len(recomputes)]

\* the step is a call of one of the two getters
GetterCalled ==
    /\ acall' # acall
    /\ acall'.op \in {"get_min_profit_threshold", "get_slippage_tolerance"}

\* C26: in every state reached by update_from_execution and
\* get_min_profit_threshold calls, whatever slippage, success and realized
\* profit the history holds, the minimum-profit threshold, and the value the
\* getter returns, lie in [0.5 * base, 3 * base].
C26_ThresholdClamped ==
    /\ 2 * min_profit_threshold >= MIN_PROFIT_THRESHOLD
    /\ min_profit_threshold <= 3 * MIN_PROFIT_THRESHOLD
    /\ acall.op = "get_min_profit_threshold"
           => /\ 2 * acall.value >= MIN_PROFIT_THRESHOLD
              /\ acall.value <= 3 * MIN_PROFIT_THRESHOLD

\* a recompute whose weighted factor is above 3 has set the threshold to 3 * base
C26_Witness ==
    /\ acall.op = "get_min_profit_threshold"
    /\ acall.recomputed
    /\ last_update_time = atime
    /\ HasData(execution_history)
    /\ CombinedFactor(Mean(AllSlippages(execution_history)),
                      Mean(AllSuccessRates(execution_history)),
                      Mean(AllProfitRatios(execution_history))) > 3 * AdaptScale
    /\ min_profit_threshold = 3 * MIN_PROFIT_THRESHOLD

\* some record of the recent history of some strategy has a slippage
SlippageObserved == AllSlippages(execution_history) # <<>>

\* C27: after every recompute that has history data, the slippage tolerance is
\* 1.5 times the recent mean observed slippage (the mean over the strategies of
\* each strategy's mean over its recent records) kept in
\* [0.5 * base tolerance, 3 * base tolerance], and in every state it lies
\* in that interval.
C27_ToleranceFollowsSlippage ==
    [][ /\ (Recomputed /\ SlippageObserved)
            => slippage_tolerance' =
                   Max(SLIPPAGE_TOLERANCE \div 2,
                       Min(3 * SLIPPAGE_TOLERANCE,
                           (3 * Mean(AllSlippages(execution_history))) \div 2))
        /\ 2 * slippage_tolerance' >= SLIPPAGE_TOLERANCE
        /\ slippage_tolerance' <= 3 * SLIPPAGE_TOLERANCE
      ]_vars

\* C28: a call of get_min_profit_threshold or of get_slippage_tolerance made
\* more than an hour after the last recompute triggers a recompute, and no
\* recompute is made within an hour of the last one.
C28_RecomputeCadence ==
    [][ /\ (GetterCalled /\ atime - LastRecompute > UpdateInterval) => Recomputed
        /\ Recomputed => atime - LastRecompute > UpdateInterval
      ]_vars

\* the last n elements of s, all of s if it has fewer
MostRecent(s, n) ==
    IF Len(s) <= n THEN s ELSE [i \in 1..n |-> s[Len(s) - n + i]]

\* C29: after any sequence of update_from_execution calls each strategy's
\* history holds at most max_history records, exactly the most recent ones in
\* arrival order, and a call for one strategy leaves the histories of the
\* other strategies unchanged.
C29_BoundedRing ==
    [][ /\ \A s \in StrategyKeys :
               /\ Len(execution_history'[s]) <= max_history
               /\ execution_history'[s] = MostRecent(arrivals'[s], max_history)
        /\ \A s \in StrategyKeys :
               execution_history'[s] # execution_history[s]
                   => /\ acall'.op = "update_from_execution"
                      /\ acall'.strategy = s
                      /\ \A o \in StrategyKeys \ {s} :
                             execution_history'[o] = execution_history[o]
      ]_vars

\* a history that has dropped its oldest record
C29_Witness ==
    \E s \in StrategyKeys :
        /\ Len(arrivals[s]) > max_history
        /\ Len(execution_history[s]) = max_history
        /\ arrivals[s][1] # arrivals[s][Len(arrivals[s])]
        /\ acall.op = "update_from_execution"
        /\ acall.strategy = s

----------------------------------------------------------------------------
\* Mempool monitor shutdown

\* stop has returned and start has not been called since
Stopped == ~running /\ mpc = "done"

\* C30: after stop() on a running monitor the feed connection is closed, none
\* of the monitor's loops is still running and the pending queue is empty.
C30_StopDiscardsPending ==
    Stopped =>
        /\ ws # "open"
        /\ ppc = "done"
        /\ tx_hashes = <<>>
        /\ pending_txs = <<>>

\* C31: once stop() has cancelled the classification loop, every hash that
\* was already published (and was not dropped from the dedup set by an
\* overflow) is in the dedup set and no longer in the pending queue, so that
\* a later start() cannot classify it again.
C31_CancelKeepsDedup ==
    Stopped =>
        \A h \in Hashes :
            (hist[h].published > 0 /\ ~hist[h].evicted) =>
                /\ h \in processed_txs
                /\ h \notin Range(pending_txs)

\* C34: the wait after a failure of the counted kinds is a function of the
\* current retry counter, min(base * 2^(retry_count - 1), cap): after a
\* subscription has reset the counter, the next failure waits the base delay,
\* as the first failure of a fresh monitor does.
C34_BackoffRestarts ==
    mpc = "sleep" /\ wait.branch = "counted" =>
        wait.seconds = Backoff(retry_count - 1)

\* C35: in every state between two steps of the monitor's tasks, whatever the
\* interleaving of notifications, batches and evictions, no hash is both in
\* the pending queue and in the dedup set.
C35_QueueDedupDisjoint == Range(pending_txs) \cap processed_txs = {}

\* a hash that was dropped from the dedup set by an overflow has been queued
\* again and is in the batch in flight, next to a dedup set that holds others
C35_Witness ==
    /\ ppc = "gather"
    /\ processed_txs # {}
    /\ \E h \in Range(tx_hashes) : hist[h].evicted /\ hist[h].again

----------------------------------------------------------------------------
\* Claims about the lifecycle of the MempoolMonitor's tasks

\* the tasks of a kind that are inside their loop
ActiveLoops(kind) ==
    {i \in 1..Len(life.tasks) : life.tasks[i].kind = kind /\ life.tasks[i].pc = "waiting"}

\* C36: for every sequence of start(), stop() and retry exhaustion, at most
\* one connect loop and at most one classification loop are active.
C36_OneLoopOfEachKind ==
    /\ Cardinality(ActiveLoops("connect")) <= 1
    /\ Cardinality(ActiveLoops("process")) <= 1

----------------------------------------------------------------------------
\* Claims about concurrent calls of the gas price oracle

\* the oracle has no await between its cache check and its cache write, so the
\* calls of concurrently started tasks run one after the other: two
\* successive calls at the same clock reading, the first of which wrote the
\* cache
NextCallAtOnce ==
    /\ last_gas_update = now
    /\ now' = now /\ gout' # gout /\ gout'.path # "none"

\* C37: when one call has queried the fee source and got an estimate, every
\* other call of the same instant returns that cached value and does not
\* query the fee source again.
C37_QueriedOnce ==
    [][(gout.queried /\ gout.path \in {"percentile", "multiplier"} /\ NextCallAtOnce) =>
           /\ ~gout'.queried
           /\ gout'.path = "cached"
           /\ gout'.value = gout.value]_vars

----------------------------------------------------------------------------
\* Claims about the cost estimate and the profitability check

\* C38: is_transaction_profitable never raises; when the gas estimation fails
\* the cost estimate is 0.0 and the check accepts iff the expected profit is
\* above 0; otherwise it accepts iff the expected profit is above 1.2 times
\* the estimated cost.
C38_FeeOnlyCheck ==
    cost.done =>
        /\ ~cost.raised
        /\ cost.gas_estimate = <<>> =>
               /\ cost.estimate = CostFloat(0)
               /\ cost.profitable = (cost.expected_profit > 0)
        /\ cost.gas_estimate # <<>> =>
               cost.profitable = (cost.expected_profit * 10 > cost.estimate.value * 12)

----------------------------------------------------------------------------
\* Claims about the orchestrator's strategy selection

\* C39: a round of the selection loop publishes strategy_changed iff the
\* selected strategy is a key of the strategy map and differs from the active
\* one; no two consecutive events carry the same strategy; the active
\* strategy is always None or a strategy of the map.
C39_ChangedOnlyOnChange ==
    /\ sel.rounds > 0 =>
           (sel.last.published <=>
               /\ sel.last.best # <<>>
               /\ sel.last.best[1] \in StrategyMap
               /\ sel.last.before # sel.last.best)
    /\ sel.last.published =>
           /\ sel.events # <<>>
           /\ sel.events[Len(sel.events)] = sel.last.best[1]
    /\ \A i \in 1..(Len(sel.events) - 1) : sel.events[i] # sel.events[i + 1]
    /\ sel.active_strategy = <<>> \/ sel.active_strategy[1] \in StrategyMap

\* two changes have been published, and the last round selected the active
\* strategy again
C39_Witness ==
    /\ Len(sel.events) = 2
    /\ sel.last.best = sel.active_strategy
    /\ sel.active_strategy # <<>>
    /\ ~sel.last.published

----------------------------------------------------------------------------
\* Claims about the EventBus when callbacks change the subscriptions

\* C40: every handler that is registered for the topic when publish is called
\* and is not itself unsubscribed during the dispatch is invoked exactly once
\* by that publish, also when a callback subscribes or unsubscribes handlers
\* of the topic while the dispatch is in progress.
C40_ReentrantExactlyOnce ==
    SyncReturned =>
        \A h \in Range(dispatch.snapshot) \ dispatch.removed :
            Count(dispatch.calls, h) = 1

----------------------------------------------------------------------------
\* Claims about the AdvancedFlashLoanStrategy

\* the opportunities of the round's list that need no capital
ZeroCapital(list) == {i \in 1..Len(list) : ~list[i].requires_capital}

\* the most profitable of them
BestZeroCapital(list) ==
    {i \in ZeroCapital(list) :
        \A j \in ZeroCapital(list) : list[j].expected_profit <= list[i].expected_profit}

\* C32: in zero-capital mode, when an opportunity that needs no capital is
\* pending, no opportunity that requires capital is executed before the most
\* profitable one that needs none, whatever the expected profits.
C32_ZeroCapitalFirst ==
    (opps.ZERO_CAPITAL_MODE /\ ZeroCapital(opps.snapshot) # {}) =>
        \A k \in 1..Len(opps.order) :
            opps.order[k].requires_capital =>
                \E j \in 1..(k - 1), i \in BestZeroCapital(opps.snapshot) :
                    opps.order[j] = opps.snapshot[i]

\* C33: _execute_flash_loan never raises; it returns true iff a provider was
\* selected, a transaction was created and submitted, and its receipt has
\* status 1; the profit is recorded once when it returns true and never when
\* it returns false.
C33_TrueIffEveryStep ==
    fl.done =>
        /\ ~fl.raised
        /\ fl.result <=> StepsSucceeded(fl.provider, fl.tx, fl.tx_hash, fl.receipt)
        /\ fl.recorded = IF fl.result THEN 1 ELSE 0

============================================================================
